---- MODULE Spec2Model ----
(***************************************************************************)
(* A model of the BNO08x gesture-direction recogniser: the SHTP transport  *)
(* over i2c-dev (both implementations of ShtpI2cTransport found in the     *)
(* repository), the SH-2 report codec, the gesture-direction detector and  *)
(* the read loops of the command-line programs.                            *)
(*                                                                         *)
(* Units.  Octets are 0..255.  Detector time is counted in ticks of        *)
(* 0.01 s, accelerations in hundredths of m/s^2; the arithmetic is exact   *)
(* (rationals are kept as numerator and denominator), so                   *)
(* floating-point rounding is not modelled.                                *)
(***************************************************************************)
EXTENDS Integers, Sequences, FiniteSets, TLC

VARIABLES
    impl,                   \* which ShtpI2cTransport is linked: "exact" | "poll"
    fd_,                    \* ShtpI2cTransport::fd_ (-1 = not open)
    max_frame_size_,        \* ShtpI2cTransport::max_frame_size_
    sequence_per_channel_,  \* ShtpI2cTransport::sequence_per_channel_
    err,                    \* the caller's ShtpError (its code)
    open_fds,               \* descriptors the process holds at the OS
    ub,                     \* an access past the end of a 512-octet buffer happened
    sent,                   \* per channel: frames handed to the bus so far
    wr,                     \* the last write_frame call and what the bus saw
    rd,                     \* the last read_frame call and what it returned
    cfg_,                   \* GestureDirectionDetector::cfg_
    buffer_,                \* GestureDirectionDetector::buffer_
    a0_world_,              \* the baseline, kept as [sum, n]: the mean is sum / n
    baseline_computed_,     \* GestureDirectionDetector::baseline_computed_
    t_baseline_end_,        \* GestureDirectionDetector::t_baseline_end_
    last_gesture_time_,     \* GestureDirectionDetector::last_gesture_time_
    pending_result_,        \* GestureDirectionDetector::pending_result_
    nsamples,               \* add_sample calls so far
    polled,                 \* the results poll_result has returned, the last two
    unpolled,               \* add_sample was called and poll_result not yet since
    everyPolled,            \* so far poll_result was called after every add_sample
    prog,                   \* the program that runs: "imu_dir" | "imu_dir_read" | "imu_read"
    pc,                     \* where its main() is
    hz,                     \* cfg.hz
    g_stop,                 \* the SIGINT flag of imu_read
    state,                  \* LastState state of the imu_dir programs
    now,                    \* the steady clock, in ticks since the program took t_start
    fresh,                  \* per slot: a report was decoded into it since the last emission
    iter,                   \* what the last iteration of the read loop did
    niter,                  \* iterations of the read loop so far
    commands,               \* the payloads the program's write_frame calls transmitted
    call                    \* the last call of a function that is called on its own

transportVars == << impl, fd_, max_frame_size_, sequence_per_channel_, err,
                    open_fds, ub, sent, wr, rd >>

detVars == << cfg_, buffer_, a0_world_, baseline_computed_, t_baseline_end_,
             last_gesture_time_, pending_result_, nsamples, polled, unpolled,
             everyPolled >>

loopVars == << prog, pc, hz, g_stop, state, now, fresh, iter, niter, commands >>

codecVars == << call >>

vars == << transportVars, detVars, loopVars, codecVars >>

-----------------------------------------------------------------------------
(* Program constants *)

SHTP_MAX_FRAME == 512
SeqTableSize == 8
HeaderLen == 4
FdOpen == 3

Octet == 0 .. 255

\* enum class ShtpChannel { Command = 0, Control = 1, SensorReport = 2 }
ShtpChannel == {0, 1, 2}
Control == 1

Implementations == {"exact", "poll"}

-----------------------------------------------------------------------------
(* Bounds of the model *)

\* write_frame calls in the general transport specification
MaxWrites == 2
\* write_frame calls on the Control channel in the sequence-number specification
SeqWrites == 258
\* write_frame calls on each other channel in the sequence-number specification
OtherWrites == 2

-----------------------------------------------------------------------------
(* Inputs *)

\* a payload of len octets: seed, seed+1, ...
Payload(len, seed) == [i \in 1 .. len |-> (seed + i - 1) % 256]

WritePayloads ==
    { Payload(0, 0), Payload(1, 128), Payload(17, 253), Payload(508, 251),
      Payload(509, 1) }

\* results of the ::write system calls of one write_frame
WriteOutcomes == {"ok", "short", "again", "fail", "zero"}

\* the headers a device may present: (len_lo, len_hi), channel, sequence
DevLengths ==
    { <<0, 0>>, <<3, 0>>, <<4, 0>>, <<10, 0>>, <<20, 0>>, <<0, 2>>, <<1, 2>>,
      <<88, 2>>, <<20, 128>>, <<4, 128>>, <<2, 128>>, <<0, 130>>, <<1, 130>>,
      <<255, 255>> }

DevHeaders ==
    { << l[1], l[2], 3, 127 >> : l \in DevLengths } \cup { << 20, 128, 2, 0 >> }

TimeoutsMs == {50}

\* results of the ::poll and ::read system calls of one read_frame: at most one
\* call is answered other than in full
ReadEnvs ==
    { [poll |-> p, hdr |-> "all", body |-> "all", image |-> "same"] :
          p \in {"ready", "timeout", "error"} }
    \cup
    { [poll |-> "ready", hdr |-> h, body |-> "all", image |-> "same"] :
          h \in {"short", "timeout", "ioerror", "zero"} }
    \cup
    { [poll |-> "ready", hdr |-> "all", body |-> b, image |-> "same"] :
          b \in {"short", "timeout", "ioerror", "zero"} }
    \cup
    { [poll |-> "ready", hdr |-> "all", body |-> "all", image |-> i] :
          i \in {"other_channel", "other_length"} }

\* the bus answers every call in full, with the frame it holds
GoodEnv == [poll |-> "ready", hdr |-> "all", body |-> "all", image |-> "same"]

-----------------------------------------------------------------------------
(* Octet arithmetic *)

\* rx_buf_[0] | (rx_buf_[1] << 8), as std::uint16_t
RawLength(h) == h[1] + 256 * h[2]

\* length &= 0x7FFF
MaskContinuation(length) == length % 32768

\* the octets a device holding header h sends after it
DevBody(h, seed) ==
    LET L == MaskContinuation(RawLength(h))
    IN  Payload(IF L >= HeaderLen /\ L <= SHTP_MAX_FRAME THEN L - HeaderLen ELSE 0, seed)

\* the header of the frame image a second read transaction returns
ImageHeader(h, image) ==
    CASE image = "same"          -> h
      [] image = "other_channel" -> << h[1], h[2], (h[3] + 1) % 256, h[4] >>
      [] OTHER                   -> << (h[1] + 1) % 256, h[2], h[3], h[4] >>

Devices == { [hdr |-> h, body |-> DevBody(h, 251)] : h \in DevHeaders }

-----------------------------------------------------------------------------
(* The records that keep the last call of each kind *)

NoFrame == [length_le |-> 0, channel |-> 0, sequence |-> 0, payload |-> << >>]

IdleWr ==
    [ called   |-> FALSE,    \* a write_frame call is recorded
      channel  |-> 0,        \* its channel argument
      payload  |-> << >>,    \* its payload argument
      ret      |-> FALSE,    \* its return value
      errc     |-> "None",   \* err.code at its return
      frame    |-> << >>,    \* the octets handed to ::write (<< >>: none)
      nwrites  |-> 0,        \* ::write calls issued
      short    |-> FALSE,    \* a ::write accepted some of the octets offered, not all
      limit    |-> 0 ]       \* max_frame_size_ during the call

IdleRd ==
    [ called   |-> FALSE,    \* a read_frame call is recorded
      ret      |-> "none",   \* "frame" | "none"
      frame    |-> NoFrame,  \* the frame returned
      errc     |-> "None",   \* err.code at its return
      hdr1     |-> << >>,    \* the 4 header octets of the first read (<< >>: not read)
      hdr      |-> << >>,    \* the header octets the frame was parsed from
      accepted |-> 0,        \* the length that passed validation (0: none)
      short    |-> FALSE,    \* some ::read delivered 1..n-1 of the n octets asked
      timedout |-> FALSE,    \* no octet arrived before the timeout
      busok    |-> FALSE,    \* every poll/read was answered in full
      nreads   |-> 0,        \* ::read calls issued
      loop     |-> FALSE ]   \* the octets read are those of wr.frame

-----------------------------------------------------------------------------
(* ShtpI2cTransport: open, close, set_max_frame_size *)

\* ShtpI2cTransport::close
close ==
    /\ ~ub
    /\ fd_' = -1
    /\ open_fds' = IF fd_ >= 0 THEN open_fds - 1 ELSE open_fds
    /\ UNCHANGED << impl, max_frame_size_, sequence_per_channel_, err, ub,
                    sent, wr, rd >>

\* ShtpI2cTransport::open: close(), ::open, ioctl(I2C_SLAVE)
open(outcome) ==
    LET held == IF fd_ >= 0 THEN open_fds - 1 ELSE open_fds
    IN  /\ ~ub
        /\ CASE outcome = "open_fail" ->
                  /\ fd_' = -1
                  /\ open_fds' = held
                  /\ err' = "IoError"
             [] outcome = "ioctl_fail" ->
                  /\ fd_' = -1
                  /\ open_fds' = held
                  /\ err' = "IoError"
             [] OTHER ->
                  /\ fd_' = FdOpen
                  /\ open_fds' = held + 1
                  /\ err' = "None"
        /\ UNCHANGED << impl, max_frame_size_, sequence_per_channel_, ub,
                        sent, wr, rd >>

\* ShtpI2cTransport::set_max_frame_size
set_max_frame_size(bytes) ==
    /\ ~ub
    /\ max_frame_size_' = bytes
    /\ UNCHANGED << impl, fd_, sequence_per_channel_, err, open_fds, ub,
                    sent, wr, rd >>

-----------------------------------------------------------------------------
(* ShtpI2cTransport::write_frame *)

\* a single counter shared by every channel
BumpSequenceShared(table, ch) == [c \in DOMAIN table |-> (table[c] + 1) % 256]

\* seq++ on the addressed channel's std::uint8_t counter
BumpSequence(table, ch) == [table EXCEPT ![ch] = (@ + 1) % 256]

\* the length's high octet left out of the header
HeaderExactLowOnly(total_len, ch, seq) == << total_len % 256, 0, ch, seq >>

\* [len_lo, len_hi, channel, sequence] as shtp_linux_i2c.cpp builds it
HeaderExact(total_len, ch, seq) ==
    << total_len % 256, (total_len \div 256) % 256, ch, seq >>

\* [len_lo, len_hi & 0x7F, channel, sequence] as the poll() variant builds it
HeaderPoll(total_len, ch, seq) ==
    << total_len % 256, (total_len \div 256) % 128, ch, seq >>

\* write_exact: ::write until every octet is accepted
write_exact(len, out) ==
    CASE out = "ok"    -> [ok |-> TRUE,  errc |-> "None",    nwrites |-> 1, short |-> FALSE]
      [] out = "short" -> [ok |-> TRUE,  errc |-> "None",    nwrites |-> 2, short |-> TRUE]
      [] out = "again" -> [ok |-> TRUE,  errc |-> "None",    nwrites |-> 2, short |-> FALSE]
      [] OTHER         -> [ok |-> FALSE, errc |-> "IoError", nwrites |-> 1, short |-> FALSE]

\* the single ::write of the poll() variant
write_once(len, out) ==
    CASE out = "ok"    -> [ok |-> TRUE,  errc |-> "None",    nwrites |-> 1, short |-> FALSE]
      [] out = "short" -> [ok |-> FALSE, errc |-> "IoError", nwrites |-> 1, short |-> TRUE]
      [] OTHER         -> [ok |-> FALSE, errc |-> "IoError", nwrites |-> 1, short |-> FALSE]

\* the call is refused before anything is built
WriteRefused(channel, payload, code) ==
    /\ wr' = [IdleWr EXCEPT !.called = TRUE, !.channel = channel,
                            !.payload = payload, !.errc = code,
                            !.limit = max_frame_size_]
    /\ err' = code
    /\ UNCHANGED << sequence_per_channel_, sent, ub >>

\* the sequence number consumed only by a frame the bus has accepted
WriteBuiltOnSuccess(channel, payload, frame, res) ==
    /\ sequence_per_channel_' = IF res.ok
                                 THEN BumpSequence(sequence_per_channel_, channel)
                                 ELSE sequence_per_channel_
    /\ sent' = [sent EXCEPT ![channel] = @ + 1]
    /\ wr' = [IdleWr EXCEPT !.called = TRUE, !.channel = channel,
                            !.payload = payload, !.ret = res.ok,
                            !.errc = res.errc, !.frame = frame,
                            !.nwrites = res.nwrites, !.short = res.short,
                            !.limit = max_frame_size_]
    /\ err' = res.errc
    /\ ub' = ub

\* the frame is built (consuming a sequence number) and handed to the bus
WriteBuilt(channel, payload, frame, res) ==
    /\ sequence_per_channel_' = BumpSequence(sequence_per_channel_, channel)
    /\ sent' = [sent EXCEPT ![channel] = @ + 1]
    /\ wr' = [IdleWr EXCEPT !.called = TRUE, !.channel = channel,
                            !.payload = payload, !.ret = res.ok,
                            !.errc = res.errc, !.frame = frame,
                            !.nwrites = res.nwrites, !.short = res.short,
                            !.limit = max_frame_size_]
    /\ err' = res.errc
    /\ ub' = ub

\* the payload does not fit the 512-octet tx buffer: memcpy runs past its end
WriteOverrun(channel, payload) ==
    /\ ub' = TRUE
    /\ wr' = [IdleWr EXCEPT !.called = TRUE, !.channel = channel,
                            !.payload = payload, !.limit = max_frame_size_]
    /\ UNCHANGED << sequence_per_channel_, sent, err >>

\* shtp_linux_i2c.cpp
write_frame_exact(channel, payload, out) ==
    LET len == Len(payload)
        total_len == (len + HeaderLen) % 65536
        seq == sequence_per_channel_[channel]
    IN  IF len + HeaderLen > max_frame_size_
          THEN WriteRefused(channel, payload, "OversizeFrame")
        ELSE IF fd_ < 0
          THEN WriteRefused(channel, payload, "NotOpen")
        ELSE IF len + HeaderLen > SHTP_MAX_FRAME
          THEN WriteOverrun(channel, payload)
        ELSE WriteBuilt(channel, payload,
                        HeaderExact(total_len, channel, seq) \o payload,
                        write_exact(total_len, out))

\* the poll() variant
write_frame_poll(channel, payload, out) ==
    LET payload_len == Len(payload)
        total_len == HeaderLen + payload_len
        seq == sequence_per_channel_[channel]
    IN  IF fd_ < 0
          THEN WriteRefused(channel, payload, "NotOpen")
        ELSE IF total_len > max_frame_size_
          THEN WriteRefused(channel, payload, "OversizeFrame")
        ELSE IF total_len > SHTP_MAX_FRAME
          THEN WriteOverrun(channel, payload)
        ELSE WriteBuilt(channel, payload,
                        HeaderPoll(total_len % 65536, channel, seq) \o payload,
                        write_once(total_len, out))

write_frame(channel, payload, out) ==
    /\ ~ub
    /\ IF impl = "exact"
         THEN write_frame_exact(channel, payload, out)
         ELSE write_frame_poll(channel, payload, out)
    /\ rd' = IdleRd
    /\ UNCHANGED << impl, fd_, max_frame_size_, open_fds >>

-----------------------------------------------------------------------------
(* ShtpI2cTransport::read_frame *)

\* read_exact: ::read until len octets have arrived or the deadline has passed
read_exact(len, script, timeout_ms) ==
    IF len = 0
      THEN [ok |-> TRUE, errc |-> "None", nreads |-> 0, short |-> FALSE]
    ELSE CASE script = "all" ->
                [ok |-> TRUE, errc |-> "None", nreads |-> 1, short |-> FALSE]
           [] script = "short" ->
                IF len >= 2
                  THEN [ok |-> TRUE, errc |-> "None", nreads |-> 2, short |-> TRUE]
                  ELSE [ok |-> TRUE, errc |-> "None", nreads |-> 1, short |-> FALSE]
           [] script = "timeout" ->
                [ok |-> FALSE, errc |-> "Timeout", nreads |-> 0, short |-> FALSE]
           [] OTHER ->
                [ok |-> FALSE, errc |-> "IoError", nreads |-> 1, short |-> FALSE]

\* an off-by-one header size
payload_len_off(length_le) == length_le - HeaderLen - 1

\* const std::size_t payload_len = header.length_le - 4
payload_len(length_le) == length_le - HeaderLen

\* the frame's payload as copied out of the receive buffer
PayloadOf(buf, length) == SubSeq(buf, HeaderLen + 1, HeaderLen + payload_len(length))

\* shtp_linux_i2c.cpp: what read_frame returns, and whether it ran past rx_buf_
read_frame_exact(e, dev, timeout_ms) ==
    LET base == [IdleRd EXCEPT !.called = TRUE]
        h == read_exact(HeaderLen, e.hdr, timeout_ms)
        length_le == RawLength(dev.hdr)
        b == read_exact(payload_len(length_le), e.body, timeout_ms)
        seen == [base EXCEPT !.hdr1 = dev.hdr, !.hdr = dev.hdr,
                             !.nreads = h.nreads, !.short = h.short]
    IN  IF fd_ < 0
          THEN [r |-> [base EXCEPT !.errc = "NotOpen"], oob |-> FALSE]
        ELSE IF ~h.ok
          THEN [r |-> [base EXCEPT !.errc = h.errc, !.nreads = h.nreads,
                                   !.timedout = (h.errc = "Timeout")],
                oob |-> FALSE]
        ELSE IF length_le < HeaderLen \/ length_le > max_frame_size_
          THEN [r |-> [seen EXCEPT !.errc = "OversizeFrame"], oob |-> FALSE]
        ELSE IF length_le > SHTP_MAX_FRAME
          THEN [r |-> [seen EXCEPT !.accepted = length_le], oob |-> TRUE]
        ELSE IF ~b.ok
          THEN [r |-> [seen EXCEPT !.errc = b.errc, !.accepted = length_le,
                                   !.nreads = h.nreads + b.nreads,
                                   !.short = h.short \/ b.short],
                oob |-> FALSE]
        ELSE [r |-> [seen EXCEPT
                       !.ret = "frame",
                       !.frame = [length_le |-> length_le,
                                  channel   |-> dev.hdr[3],
                                  sequence  |-> dev.hdr[4],
                                  payload   |-> PayloadOf(dev.hdr \o dev.body, length_le)],
                       !.accepted = length_le,
                       !.nreads = h.nreads + b.nreads,
                       !.short = h.short \/ b.short,
                       !.busok = (e.hdr = "all" /\ e.body = "all")],
              oob |-> FALSE]

\* the poll() variant: poll, read(4), read(length) of the whole frame again
read_frame_poll(e, dev, timeout_ms) ==
    LET base == [IdleRd EXCEPT !.called = TRUE]
        length == MaskContinuation(RawLength(dev.hdr))
        buf == ImageHeader(dev.hdr, e.image) \o dev.body
        length2 == MaskContinuation(RawLength(buf))
        seen == [base EXCEPT !.hdr1 = dev.hdr, !.nreads = 1]
    IN  IF fd_ < 0
          THEN [r |-> [base EXCEPT !.errc = "NotOpen"], oob |-> FALSE]
        ELSE IF e.poll = "timeout"
          THEN [r |-> [base EXCEPT !.timedout = TRUE], oob |-> FALSE]
        ELSE IF e.poll = "error"
          THEN [r |-> [base EXCEPT !.errc = "IoError"], oob |-> FALSE]
        ELSE IF e.hdr = "ioerror"
          THEN [r |-> [base EXCEPT !.errc = "IoError", !.nreads = 1], oob |-> FALSE]
        ELSE IF e.hdr \in {"zero", "timeout"}
          THEN [r |-> [base EXCEPT !.nreads = 1, !.timedout = TRUE], oob |-> FALSE]
        ELSE IF e.hdr = "short"
          THEN [r |-> [base EXCEPT !.errc = "IoError", !.nreads = 1, !.short = TRUE],
                oob |-> FALSE]
        ELSE IF length < HeaderLen \/ length > max_frame_size_
          THEN [r |-> [seen EXCEPT !.errc = "OversizeFrame"], oob |-> FALSE]
        ELSE IF length > SHTP_MAX_FRAME
          THEN [r |-> [seen EXCEPT !.accepted = length], oob |-> TRUE]
        ELSE IF e.body \in {"ioerror", "timeout"}
          THEN [r |-> [seen EXCEPT !.errc = "IoError", !.accepted = length,
                                   !.nreads = 2],
                oob |-> FALSE]
        ELSE IF e.body \in {"short", "zero"}
          THEN [r |-> [seen EXCEPT !.errc = "IoError", !.accepted = length,
                                   !.nreads = 2, !.short = (e.body = "short")],
                oob |-> FALSE]
        ELSE IF length2 # length
          THEN [r |-> [seen EXCEPT !.errc = "InvalidHeader", !.accepted = length,
                                   !.hdr = SubSeq(buf, 1, HeaderLen), !.nreads = 2],
                oob |-> FALSE]
        ELSE [r |-> [seen EXCEPT
                       !.ret = "frame",
                       !.frame = [length_le |-> length2,
                                  channel   |-> buf[3],
                                  sequence  |-> buf[4],
                                  payload   |-> PayloadOf(buf, length2)],
                       !.hdr = SubSeq(buf, 1, HeaderLen),
                       !.accepted = length,
                       !.nreads = 2,
                       !.busok = (e.image = "same")],
              oob |-> FALSE]

\* the octets the bus holds after a write_frame that it accepted
Loopback == [hdr |-> SubSeq(wr.frame, 1, HeaderLen),
             body |-> SubSeq(wr.frame, HeaderLen + 1, Len(wr.frame))]

\* the read_frame of the implementation that is linked
ReadResult(e, dev, timeout_ms) ==
    IF impl = "exact"
      THEN read_frame_exact(e, dev, timeout_ms)
      ELSE read_frame_poll(e, dev, timeout_ms)

ReadFrom(e, dev, timeout_ms, loop) ==
    LET res == ReadResult(e, dev, timeout_ms)
    IN  /\ ~ub
        /\ (impl = "exact" /\ "timeout" \in {e.hdr, e.body}) => timeout_ms > 0
        /\ rd' = [res.r EXCEPT !.loop = loop]
        /\ err' = res.r.errc
        /\ ub' = res.oob
        /\ wr' = IF loop THEN wr ELSE IdleWr
        /\ UNCHANGED << impl, fd_, max_frame_size_, sequence_per_channel_,
                        open_fds, sent >>

\* read_frame of whatever a device presents
read_frame(e, dev, timeout_ms) == ReadFrom(e, dev, timeout_ms, FALSE)

\* read_frame of the frame the last write_frame put on the bus
read_frame_back(timeout_ms) ==
    /\ wr.called /\ wr.ret
    /\ ReadFrom(GoodEnv, Loopback, timeout_ms, TRUE)

-----------------------------------------------------------------------------
(* The gesture-direction detector (gesture_dir.hpp).  Times are in ticks of  *)
(* 0.01 s, accelerations in hundredths of m/s^2, so a velocity change is in  *)
(* ten-thousandths of m/s.  A vector is << x, y, z >>, a quaternion          *)
(* << w, x, y, z >>.  The baseline is [sum, n], standing for sum / n, and    *)
(* every quantity measured from it is kept multiplied by n.                  *)

\* Config{} as declared: 0.2 s, 0.3 s, 0.5 m/s^2, 1.5 m/s^2, 0.8 s
DefaultConfig ==
    [ baseline_window_s |-> 20, half_window_s |-> 30, min_dyn_threshold |-> 50,
      min_peak_magnitude |-> 150, min_gesture_interval |-> 80 ]

\* det_cfg of the imu_dir programs: 0.2 s, 0.3 s, 0.3 m/s^2, 1.0 m/s^2, 0.5 s
ImuDirConfig ==
    [ baseline_window_s |-> 20, half_window_s |-> 30, min_dyn_threshold |-> 30,
      min_peak_magnitude |-> 100, min_gesture_interval |-> 50 ]

\* last_gesture_time_{-1e9}: further back than any time of the model
NeverGesture == -1000000000

\* if (mag_axis < 0.5) return;   0.5 m/s
MinAxisDeltaV == 5000

ZeroVec == << 0, 0, 0 >>
IdentityQuat == << 1, 0, 0, 0 >>

\* the element of a one-element set: { F(x) : x \in {e} } computes e once
TheOne(S) == CHOOSE x \in S : TRUE

VAdd(a, b) == << a[1] + b[1], a[2] + b[2], a[3] + b[3] >>
VScale(k, a) == << k * a[1], k * a[2], k * a[3] >>
Abs(x) == IF x < 0 THEN -x ELSE x
Max(a, b) == IF a < b THEN b ELSE a

rotate_vector_by_quat(v, q) ==
    LET qw == q[1]
        qx == q[2]
        qy == q[3]
        qz == q[4]
        tx == 2 * (qy * v[3] - qz * v[2])
        ty == 2 * (qz * v[1] - qx * v[3])
        tz == 2 * (qx * v[2] - qy * v[1])
    IN  << v[1] + qw * tx + (qy * tz - qz * ty),
           v[2] + qw * ty + (qz * tx - qx * tz),
           v[3] + qw * tz + (qx * ty - qy * tx) >>

\* norm(v), squared: norms are only ever compared with non-negative numbers
NormSq(v) == v[1] * v[1] + v[2] * v[2] + v[3] * v[3]

\* dyn = accel - a0_world_, multiplied by a0.n
Dyn(accel, a0) == VAdd(VScale(a0.n, accel), VScale(-1, a0.sum))

\* the buffer kept over 3 * half_window_s
RECURSIVE PopOldWide(_, _, _)
PopOldWide(buf, t, half_window_s) ==
    IF buf # << >> /\ (t - Head(buf).t) > 3 * half_window_s
    THEN PopOldWide(Tail(buf), t, half_window_s)
    ELSE buf

\* while (!buffer_.empty() && (t - buffer_.front().t) > 2.5 * half_window_s) pop_front
RECURSIVE PopOld(_, _, _)
PopOld(buf, t, half_window_s) ==
    IF buf # << >> /\ 2 * (t - Head(buf).t) > 5 * half_window_s
    THEN PopOld(Tail(buf), t, half_window_s)
    ELSE buf

\* the loop of compute_baseline_if_ready: sums until a sample lies past the window
RECURSIVE BaselineScan(_, _, _, _, _)
BaselineScan(buf, i, t0, window_s, acc) ==
    IF i > Len(buf) \/ (buf[i].t - t0) > window_s
    THEN acc
    ELSE BaselineScan(buf, i + 1, t0, window_s,
                      [sum |-> VAdd(acc.sum, buf[i].accel), n |-> acc.n + 1])

compute_baseline_if_ready(buf, cfg, a0, t_end) ==
    IF buf = << >> THEN [computed |-> FALSE, a0 |-> a0, t_end |-> t_end]
    ELSE TheOne({ IF acc.n < 3
                  THEN [computed |-> FALSE, a0 |-> a0, t_end |-> t_end]
                  ELSE [computed |-> TRUE, a0 |-> acc,
                        t_end |-> Head(buf).t + cfg.baseline_window_s] :
                  acc \in { BaselineScan(buf, 1, Head(buf).t, cfg.baseline_window_s,
                                         [sum |-> ZeroVec, n |-> 0]) } })

\* the peak looked for among the samples of the baseline window as well
RECURSIVE PeakScanWholeBuffer(_, _, _, _, _, _)
PeakScanWholeBuffer(buf, i, a0, t_baseline_end, max_mag, i_peak) ==
    IF i > Len(buf) THEN [max_mag |-> max_mag, i_peak |-> i_peak]
    ELSE IF NormSq(Dyn(buf[i].accel, a0)) > max_mag
         THEN PeakScanWholeBuffer(buf, i + 1, a0, t_baseline_end,
                                  NormSq(Dyn(buf[i].accel, a0)), i)
         ELSE PeakScanWholeBuffer(buf, i + 1, a0, t_baseline_end, max_mag, i_peak)

\* 1) peak |a_dyn|: max_mag is kept squared and multiplied by n^2, -1 = none yet
RECURSIVE PeakScan(_, _, _, _, _, _)
PeakScan(buf, i, a0, t_baseline_end, max_mag, i_peak) ==
    IF i > Len(buf) THEN [max_mag |-> max_mag, i_peak |-> i_peak]
    ELSE IF buf[i].t < t_baseline_end
         THEN PeakScan(buf, i + 1, a0, t_baseline_end, max_mag, i_peak)
         ELSE LET mag == NormSq(Dyn(buf[i].accel, a0))
              IN  IF mag > max_mag
                  THEN PeakScan(buf, i + 1, a0, t_baseline_end, mag, i)
                  ELSE PeakScan(buf, i + 1, a0, t_baseline_end, max_mag, i_peak)

\* 2) the window: indices here are 1-based, so each is the code's plus one
RECURSIVE StartIdx(_, _, _)
StartIdx(buf, start_idx, t_start) ==
    IF start_idx <= Len(buf) /\ buf[start_idx].t < t_start
    THEN StartIdx(buf, start_idx + 1, t_start)
    ELSE start_idx

RECURSIVE EndIdx(_, _, _)
EndIdx(buf, end_idx, t_end) ==
    IF end_idx <= Len(buf) /\ buf[end_idx].t <= t_end
    THEN EndIdx(buf, end_idx + 1, t_end)
    ELSE end_idx

\* 3) the integration of a_dyn over the window; dv is multiplied by a0.n
RECURSIVE Integrate(_, _, _, _, _, _)
Integrate(buf, i, end_idx, a0, min_dyn_threshold, dv) ==
    IF i >= end_idx THEN dv
    ELSE LET dt == buf[i].t - buf[i - 1].t
             dyn == Dyn(buf[i].accel, a0)
             thr == min_dyn_threshold * a0.n
         IN  IF dt <= 0 \/ NormSq(dyn) < thr * thr
             THEN Integrate(buf, i + 1, end_idx, a0, min_dyn_threshold, dv)
             ELSE Integrate(buf, i + 1, end_idx, a0, min_dyn_threshold,
                            VAdd(dv, VScale(dt, dyn)))

\* axis_sign_to_label with the labels of Y and Z exchanged
axis_sign_to_label_yz(axis, sign) ==
    CASE axis = "X" -> (IF sign = "+" THEN "UP" ELSE "DOWN")
      [] axis = "Y" -> (IF sign = "+" THEN "RIGHT" ELSE "LEFT")
      [] axis = "Z" -> (IF sign = "+" THEN "FORWARD" ELSE "BACKWARD")
      [] OTHER      -> "UNKNOWN"

axis_sign_to_label(axis, sign) ==
    CASE axis = "X" -> (IF sign = "+" THEN "UP" ELSE "DOWN")
      [] axis = "Z" -> (IF sign = "+" THEN "RIGHT" ELSE "LEFT")
      [] axis = "Y" -> (IF sign = "+" THEN "FORWARD" ELSE "BACKWARD")
      [] OTHER      -> "UNKNOWN"

NoDetection == [detected |-> FALSE]

\* Classify with equal components resolved Z before Y before X
ClassifyZFirst(buf, a0, t_peak, duration, dv) ==
    LET absx    == Abs(dv[1])
        absy    == Abs(dv[2])
        absz    == Abs(dv[3])
        axis    == IF absz >= absx /\ absz >= absy THEN "Z"
                   ELSE IF absy >= absx /\ absy >= absz THEN "Y"
                   ELSE "X"
        axis_val == IF axis = "X" THEN dv[1] ELSE IF axis = "Y" THEN dv[2] ELSE dv[3]
        sign    == IF axis_val >= 0 THEN "+" ELSE "-"
        mag_axis == Max(absx, Max(absy, absz))
    IN  IF mag_axis < MinAxisDeltaV * a0.n THEN NoDetection
        ELSE [ detected |-> TRUE,
               t_now |-> buf[Len(buf)].t,
               res |-> [ t_center |-> t_peak,
                         duration |-> duration,
                         delta_v_world |-> [num |-> dv, den |-> a0.n],
                         baseline_world |-> a0,
                         axis |-> axis,
                         sign |-> sign,
                         label |-> axis_sign_to_label(axis, sign) ] ]

\* the axis, the sign and the 0.5 m/s threshold; the result that is stored
Classify(buf, a0, t_peak, duration, dv) ==
    LET absx    == Abs(dv[1])
        absy    == Abs(dv[2])
        absz    == Abs(dv[3])
        axis    == IF absx >= absy /\ absx >= absz THEN "X"
                   ELSE IF absy >= absx /\ absy >= absz THEN "Y"
                   ELSE "Z"
        axis_val == IF axis = "X" THEN dv[1] ELSE IF axis = "Y" THEN dv[2] ELSE dv[3]
        sign    == IF axis_val >= 0 THEN "+" ELSE "-"
        mag_axis == Max(absx, Max(absy, absz))
    IN  IF mag_axis < MinAxisDeltaV * a0.n THEN NoDetection
        ELSE [ detected |-> TRUE,
               t_now |-> buf[Len(buf)].t,
               res |-> [ t_center |-> t_peak,
                         duration |-> duration,
                         delta_v_world |-> [num |-> dv, den |-> a0.n],
                         baseline_world |-> a0,
                         axis |-> axis,
                         sign |-> sign,
                         label |-> axis_sign_to_label(axis, sign) ] ]

\* DetectInWindow content with 2 samples in the window
DetectInWindowTwo(buf, cfg, a0, t_peak, start_idx, end_idx) ==
    IF end_idx <= start_idx + 1 THEN NoDetection
    ELSE TheOne({ Classify(buf, a0, t_peak,
                           buf[end_idx - 1].t - buf[start_idx].t, dv) :
                  dv \in { Integrate(buf, start_idx + 1, end_idx, a0,
                                     cfg.min_dyn_threshold, ZeroVec) } })

\* from the window's indices on: at least 3 samples, then the integration
DetectInWindow(buf, cfg, a0, t_peak, start_idx, end_idx) ==
    IF end_idx <= start_idx + 2 THEN NoDetection
    ELSE TheOne({ Classify(buf, a0, t_peak,
                           buf[end_idx - 1].t - buf[start_idx].t, dv) :
                  dv \in { Integrate(buf, start_idx + 1, end_idx, a0,
                                     cfg.min_dyn_threshold, ZeroVec) } })

\* from the peak on: the magnitude test, then the window around t_peak
DetectAtPeak(buf, cfg, a0, peak) ==
    LET min_peak == cfg.min_peak_magnitude * a0.n
        t_peak  == buf[peak.i_peak].t
        t_start == t_peak - cfg.half_window_s
        t_end   == t_peak + cfg.half_window_s
    IN  IF peak.max_mag < 0 \/ peak.max_mag < min_peak * min_peak THEN NoDetection
        ELSE TheOne({ TheOne({ DetectInWindow(buf, cfg, a0, t_peak, start_idx, end_idx) :
                               end_idx \in { EndIdx(buf, start_idx, t_end) } }) :
                      start_idx \in { StartIdx(buf, 1, t_start) } })

\* maybe_detect_gesture: the result it stores, if it stores one
maybe_detect_gesture(buf, cfg, a0, t_baseline_end, last_gesture_time) ==
    IF Len(buf) < 3 THEN NoDetection
    ELSE IF (buf[Len(buf)].t - last_gesture_time) < cfg.min_gesture_interval
         THEN NoDetection
    ELSE TheOne({ DetectAtPeak(buf, cfg, a0, peak) :
                  peak \in { PeakScan(buf, 1, a0, t_baseline_end, -1, 1) } })

\* the last two of the results returned so far
LastTwo(s) == IF Len(s) > 2 THEN SubSeq(s, Len(s) - 1, Len(s)) ELSE s

\* add_sample computing the baseline anew at every call
AddSampleRebase(t, accel_sensor, quat, polls) ==
    \E buf \in { PopOld(Append(buffer_, [ t |-> t,
                                          accel |-> rotate_vector_by_quat(accel_sensor, quat),
                                          quat |-> quat ]),
                        t, cfg_.half_window_s) } :
    \E base \in { compute_baseline_if_ready(buf, cfg_, a0_world_, t_baseline_end_) } :
    \E det \in { IF base.computed
                 THEN maybe_detect_gesture(buf, cfg_, base.a0, base.t_end,
                                           last_gesture_time_)
                 ELSE NoDetection } :
    \E pending \in { IF det.detected THEN << det.res >> ELSE pending_result_ } :
        /\ buffer_' = buf
        /\ a0_world_' = base.a0
        /\ baseline_computed_' = base.computed
        /\ t_baseline_end_' = base.t_end
        /\ last_gesture_time_' = IF det.detected THEN det.t_now ELSE last_gesture_time_
        /\ pending_result_' = IF polls THEN << >> ELSE pending
        /\ polled' = IF polls /\ pending # << >>
                     THEN LastTwo(Append(polled, pending[1]))
                     ELSE polled
        /\ nsamples' = nsamples + 1
        /\ everyPolled' = (everyPolled /\ ~unpolled)
        /\ unpolled' = ~polls
        /\ cfg_' = cfg_

\* add_sample, and poll_result right after it when polls: the buffer, the
\* baseline and the detection are each computed once
AddSample(t, accel_sensor, quat, polls) ==
    \E buf \in { PopOld(Append(buffer_, [ t |-> t,
                                          accel |-> rotate_vector_by_quat(accel_sensor, quat),
                                          quat |-> quat ]),
                        t, cfg_.half_window_s) } :
    \E base \in { IF baseline_computed_
                  THEN [computed |-> TRUE, a0 |-> a0_world_, t_end |-> t_baseline_end_]
                  ELSE compute_baseline_if_ready(buf, cfg_, a0_world_, t_baseline_end_) } :
    \E det \in { IF base.computed
                 THEN maybe_detect_gesture(buf, cfg_, base.a0, base.t_end,
                                           last_gesture_time_)
                 ELSE NoDetection } :
    \E pending \in { IF det.detected THEN << det.res >> ELSE pending_result_ } :
        /\ buffer_' = buf
        /\ a0_world_' = base.a0
        /\ baseline_computed_' = base.computed
        /\ t_baseline_end_' = base.t_end
        /\ last_gesture_time_' = IF det.detected THEN det.t_now ELSE last_gesture_time_
        /\ pending_result_' = IF polls THEN << >> ELSE pending
        /\ polled' = IF polls /\ pending # << >>
                     THEN LastTwo(Append(polled, pending[1]))
                     ELSE polled
        /\ nsamples' = nsamples + 1
        /\ everyPolled' = (everyPolled /\ ~unpolled)
        /\ unpolled' = ~polls
        /\ cfg_' = cfg_

add_sample(t, accel_sensor, quat) == AddSample(t, accel_sensor, quat, FALSE)

\* detector.add_sample(...) with detector.poll_result() right after it, as the
\* read loops call them
add_sample_poll_result(t, accel_sensor, quat) == AddSample(t, accel_sensor, quat, TRUE)

\* poll_result without pending_result_.reset()
poll_result_keep ==
    /\ polled' = IF pending_result_ # << >>
                 THEN LastTwo(Append(polled, pending_result_[1]))
                 ELSE polled
    /\ pending_result_' = pending_result_
    /\ unpolled' = FALSE
    /\ UNCHANGED << cfg_, buffer_, a0_world_, baseline_computed_, t_baseline_end_,
                    last_gesture_time_, nsamples, everyPolled >>

poll_result ==
    /\ polled' = IF pending_result_ # << >>
                 THEN LastTwo(Append(polled, pending_result_[1]))
                 ELSE polled
    /\ pending_result_' = << >>
    /\ unpolled' = FALSE
    /\ UNCHANGED << cfg_, buffer_, a0_world_, baseline_computed_, t_baseline_end_,
                    last_gesture_time_, nsamples, everyPolled >>

\* GestureDirectionDetector(cfg)
DetectorInit(cfg) ==
    /\ cfg_ = cfg
    /\ buffer_ = << >>
    /\ a0_world_ = [sum |-> ZeroVec, n |-> 1]
    /\ baseline_computed_ = FALSE
    /\ t_baseline_end_ = 0
    /\ last_gesture_time_ = NeverGesture
    /\ pending_result_ = << >>
    /\ nsamples = 0
    /\ polled = << >>
    /\ unpolled = FALSE
    /\ everyPolled = TRUE

-----------------------------------------------------------------------------
(* SH-2 reports (sh2_parser.cpp, sh2_enable.hpp).  A record is a sequence  *)
(* of octets; data[k] of the code is data[k + 1] here.  Decoded values are *)
(* kept exact, as [num, den]: num holds the raw 16-bit integers and den the *)
(* divisor of the fixed-point format, so a component is num[i] / den.      *)

\* enum class Sh2SensorId
Accelerometer == 1
Gyroscope == 2
LinearAcceleration == 4
GameRotationVector == 8

\* SHTP_REPORT_SET_FEATURE_CMD
SetFeatureCmd == 253
\* 0xFB, Base Timestamp Reference, and the octets it takes
BaseTimestampRef == 251
BaseTimestampLen == 5

\* le_i16 without the cast to std::int16_t: the value is not sign-extended
le_u16(data, off) == data[off + 1] + 256 * data[off + 2]

\* static_cast<std::int16_t>(p[0] | (std::int16_t(p[1]) << 8))
le_i16(data, off) ==
    LET u == data[off + 1] + 256 * data[off + 2]
    IN  IF u >= 32768 THEN u - 65536 ELSE u

\* decode_accuracy reading bits 2..3 of the status octet instead of bits 0..1
decode_accuracy_high_bits(status) ==
    CASE (status \div 4) % 4 = 1 -> "Low"
      [] (status \div 4) % 4 = 2 -> "Medium"
      [] (status \div 4) % 4 = 3 -> "High"
      [] OTHER                   -> "Unreliable"

decode_accuracy(status) ==
    CASE status % 4 = 1 -> "Low"
      [] status % 4 = 2 -> "Medium"
      [] status % 4 = 3 -> "High"
      [] OTHER          -> "Unreliable"

NoEvent == [some |-> FALSE]

\* an event whose gyroscope vector is stored in evt.accel as well
Sh2SensorEventShared(sensor_id, accuracy, accel, gyro, game_quat) ==
    [ some |-> TRUE, sensor_id |-> sensor_id, accuracy |-> accuracy,
      accel |-> IF accel = << >> THEN gyro ELSE accel,
      gyro |-> gyro, game_quat |-> game_quat ]

Sh2SensorEvent(sensor_id, accuracy, accel, gyro, game_quat) ==
    [ some |-> TRUE, sensor_id |-> sensor_id, accuracy |-> accuracy,
      accel |-> accel, gyro |-> gyro, game_quat |-> game_quat ]

\* constexpr float SCALE = 1.0f / 256.0f, 1.0f / 512.0f, 1.0f / 16384.0f
Q8 == 256
Q9 == 512
Q14 == 16384

\* raw * SCALE: a power of two times a 16-bit integer is exact in a float
Scaled(raw, q) == [num |-> raw, den |-> q]

\* an optional value is << >> or << v >>; a quaternion is << real, i, j, k >>
parse_sh2_sensor_event(data) ==
    LET len == Len(data)
        report_id == data[1]
        accuracy == decode_accuracy(data[3])
        xyz == << le_i16(data, 4), le_i16(data, 6), le_i16(data, 8) >>
    IN  IF len < 4 THEN NoEvent
        ELSE CASE report_id = 1 ->
                    IF len < 10 THEN NoEvent
                    ELSE Sh2SensorEvent(Accelerometer, accuracy,
                                        << Scaled(xyz, Q8) >>, << >>, << >>)
               [] report_id = 4 ->
                    IF len < 10 THEN NoEvent
                    ELSE Sh2SensorEvent(LinearAcceleration, accuracy,
                                        << Scaled(xyz, Q8) >>, << >>, << >>)
               [] report_id = 2 ->
                    IF len < 10 THEN NoEvent
                    ELSE Sh2SensorEvent(Gyroscope, accuracy,
                                        << >>, << Scaled(xyz, Q9) >>, << >>)
               [] report_id = 8 ->
                    IF len < 12 THEN NoEvent
                    ELSE Sh2SensorEvent(GameRotationVector, accuracy, << >>, << >>,
                             << Scaled(<< le_i16(data, 10), le_i16(data, 4),
                                          le_i16(data, 6), le_i16(data, 8) >>,
                                       Q14) >>)
               [] OTHER -> NoEvent

\* the octets of a Set Feature Command
CommandLen == 17

\* build_enable_report_command with the report interval written as sh2_set_feature
\* writes it: one octet early, and only 16 bits of it
build_enable_report_command_shifted(sensor, interval_us, max_len) ==
    IF max_len < CommandLen
    THEN [ret |-> FALSE, out_len |-> 0, out_buf |-> << >>]
    ELSE [ ret |-> TRUE, out_len |-> CommandLen,
           out_buf |-> << SetFeatureCmd, sensor, 0, 0,
                          interval_us % 256, (interval_us \div 256) % 256, 0, 0,
                          0, 0, 0, 0, 0, 0, 0, 0, 0 >>
                       \o [i \in 1 .. max_len - CommandLen |-> 0] ]

\* build_enable_report_command(sensor, interval_us, out_buf, out_len, max_len),
\* out_buf being max_len octets long and out_len 0 before the call: what it
\* returns and what it leaves in out_len and out_buf (<< >>: left as it was);
\* interval_us is a std::uint32_t
build_enable_report_command(sensor, interval_us, max_len) ==
    IF max_len < CommandLen
    THEN [ret |-> FALSE, out_len |-> 0, out_buf |-> << >>]
    ELSE [ ret |-> TRUE, out_len |-> CommandLen,
           out_buf |-> << SetFeatureCmd, sensor, 0, 0, 0,
                          interval_us % 256, (interval_us \div 256) % 256,
                          (interval_us \div 65536) % 256,
                          (interval_us \div 16777216) % 256,
                          0, 0, 0, 0, 0, 0, 0, 0 >>
                       \o [i \in 1 .. max_len - CommandLen |-> 0] ]

\* sh2_set_feature: the 17 octets, interval_us being a uint16_t that is cast to
\* uint8_t before it is shifted
sh2_set_feature(sensorId, interval_us) ==
    << SetFeatureCmd, sensorId, 0, 0,
       (interval_us % 256) % 256, ((interval_us % 256) \div 256) % 256, 0, 0,
       0, 0, 0, 0, 0, 0, 0, 0, 0 >>

\* no function has been called on its own
NoCall == [fn |-> "none"]

CodecIdle == call = NoCall

-----------------------------------------------------------------------------
(* The programs: imu_dir (imu_dir.cpp), its variant in imu_read.cpp, called *)
(* imu_dir_read here, and imu_read (imu_read.cpp).  pc is the statement     *)
(* main() is about to execute.                                              *)

Programs == {"imu_dir", "imu_dir_read", "imu_read"}

\* CliConfig{}.timeout_ms
DefaultTimeoutMs == 50

FirstStep(p) == IF p = "imu_dir_read" THEN "set_max" ELSE "open"

AfterOpen(p) == IF p = "imu_dir_read" THEN "enable_accel" ELSE "set_max"

AfterSetMax(p) ==
    CASE p = "imu_dir"      -> "enable_accel"
      [] p = "imu_dir_read" -> "open"
      [] OTHER              -> "loop"

\* the detector each program constructs
ProgramConfig(p) == IF p = "imu_dir" THEN ImuDirConfig ELSE DefaultConfig

\* LastState{}: Vec3{} is (0, 0, 0) and Quat{} is (1, 0, 0, 0)
NoState == [ have_accel |-> FALSE, have_quat |-> FALSE,
             last_accel |-> Scaled(ZeroVec, 1), last_quat |-> Scaled(IdentityQuat, 1) ]

NoFresh == [accel |-> FALSE, quat |-> FALSE]

IdleIter ==
    [ ran       |-> FALSE,   \* an iteration is recorded
      got_frame |-> FALSE,   \* its read_frame returned a frame
      timedout  |-> FALSE,   \* its read_frame saw no data before the timeout
      errc      |-> "None",  \* err.code after its read_frame
      counted   |-> FALSE,   \* it counted a drop (++timeouts)
      emitted   |-> FALSE,   \* it emitted a sample (add_sample or a CSV row)
      t         |-> 0,       \* the timestamp that sample carries
      t_prev    |-> -1,      \* the timestamp of the sample emitted before (-1: none)
      fresh     |-> NoFresh ]\* the slots refreshed since the emission before it

\* transport.open(cfg.bus, cfg.addr, err), return 1 when it fails
main_open(outcome) ==
    /\ pc = "open"
    /\ open(outcome)
    /\ pc' = IF outcome = "ok" THEN AfterOpen(prog) ELSE "exit"
    /\ UNCHANGED detVars
    /\ UNCHANGED << prog, hz, g_stop, state, now, fresh, iter, niter, commands >>

\* transport.set_max_frame_size(SHTP_MAX_FRAME)
main_set_max_frame_size ==
    /\ pc = "set_max"
    /\ set_max_frame_size(SHTP_MAX_FRAME)
    /\ pc' = AfterSetMax(prog)
    /\ UNCHANGED detVars
    /\ UNCHANGED << prog, hz, g_stop, state, now, fresh, iter, niter, commands >>

\* std::uint8_t buf[32] of enable_report
EnableBufLen == 32

\* the set-feature payload a program sends for a sensor; 1'000'000 / hz is an int
\* that fits the std::uint32_t, and is cut to 16 bits for sh2_set_feature
EnablePayload(p, sensor) ==
    IF p = "imu_dir"
    THEN TheOne({ SubSeq(b.out_buf, 1, b.out_len) :
                  b \in { build_enable_report_command(sensor, 1000000 \div hz,
                                                      EnableBufLen) } })
    ELSE sh2_set_feature(sensor, (1000000 \div hz) % 65536)

\* enable_report(..., LinearAcceleration, ...) / enable_report_accel, then the
\* same for GameRotationVector; imu_dir goes on when one fails, its variant returns 1
main_enable_report(out) ==
    LET sensor == IF pc = "enable_accel" THEN LinearAcceleration
                  ELSE GameRotationVector
        next == IF pc = "enable_accel" THEN "enable_quat" ELSE "loop"
    IN  /\ pc \in {"enable_accel", "enable_quat"}
        /\ write_frame(Control, EnablePayload(prog, sensor), out)
        /\ pc' = IF prog = "imu_dir_read" /\ ~wr'.ret THEN "exit" ELSE next
        /\ commands' = IF wr'.ret THEN Append(commands, wr'.payload) ELSE commands
        /\ UNCHANGED detVars
        /\ UNCHANGED << prog, hz, g_stop, state, now, fresh, iter, niter >>

\* SkipTimestamp skipping the 4 octets of the delta only
SkipTimestampDelta(payload) ==
    IF Len(payload) >= BaseTimestampLen /\ payload[1] = BaseTimestampRef
    THEN SubSeq(payload, BaseTimestampLen, Len(payload))
    ELSE payload

\* the payload after the 0xFB prefix, if it has one
SkipTimestamp(payload) ==
    IF Len(payload) >= BaseTimestampLen /\ payload[1] = BaseTimestampRef
    THEN SubSeq(payload, BaseTimestampLen + 1, Len(payload))
    ELSE payload

\* the event an imu_dir loop decodes from the payload of a sensor-channel frame
DecodePayload(payload) ==
    TheOne({ IF Len(p) = 0 THEN NoEvent ELSE parse_sh2_sensor_event(p) :
             p \in { SkipTimestamp(payload) } })

\* the event an imu_dir loop decodes from what read_frame returned
DecodeFrame(r) ==
    IF r.ret # "frame" THEN NoEvent
    ELSE IF r.frame.channel < 2 \/ r.frame.channel > 5 THEN NoEvent
    ELSE DecodePayload(r.frame.payload)

\* UpdateState building bno::Quat from i, j, k, real in the order of the report
UpdateStateReportOrder(st, evt) ==
    IF ~evt.some THEN st
    ELSE [ have_accel |-> st.have_accel \/ evt.accel # << >>,
           have_quat  |-> st.have_quat \/ evt.game_quat # << >>,
           last_accel |-> IF evt.accel # << >> THEN evt.accel[1] ELSE st.last_accel,
           last_quat  |-> IF evt.game_quat # << >>
                          THEN Scaled(<< evt.game_quat[1].num[2], evt.game_quat[1].num[3],
                                         evt.game_quat[1].num[4], evt.game_quat[1].num[1] >>,
                                      evt.game_quat[1].den)
                          ELSE st.last_quat ]

\* state.have_accel / state.last_accel and state.have_quat / state.last_quat
UpdateState(st, evt) ==
    IF ~evt.some THEN st
    ELSE [ have_accel |-> st.have_accel \/ evt.accel # << >>,
           have_quat  |-> st.have_quat \/ evt.game_quat # << >>,
           last_accel |-> IF evt.accel # << >> THEN evt.accel[1] ELSE st.last_accel,
           last_quat  |-> IF evt.game_quat # << >> THEN evt.game_quat[1]
                          ELSE st.last_quat ]

UpdateFresh(f, evt) ==
    IF ~evt.some THEN f
    ELSE [ accel |-> f.accel \/ evt.accel # << >>,
           quat  |-> f.quat \/ evt.game_quat # << >> ]

\* bno::Vec3{x, y, z} in hundredths of m/s^2 and bno::Quat{real, i, j, k} as
\* numbers: exact for the reports the devices of this model send
AccelUnits(v) ==
    << (v.num[1] * 100) \div v.den, (v.num[2] * 100) \div v.den,
       (v.num[3] * 100) \div v.den >>
QuatUnits(q) ==
    << q.num[1] \div q.den, q.num[2] \div q.den, q.num[3] \div q.den,
       q.num[4] \div q.den >>

\* only imu_dir.cpp keeps a counter: if (!frame_opt) ++timeouts
CountsDrop(r) == prog = "imu_dir" /\ r.ret # "frame"

\* Iterate leaving the loop when the read timed out: break instead of continue
IterateTimeoutExits(r, st, emits, fr, t, shown) ==
    /\ state' = st
    /\ now' = t
    /\ niter' = niter + 1
    /\ iter' = [ ran |-> TRUE, got_frame |-> (r.ret = "frame"),
                 timedout |-> r.timedout, errc |-> r.errc,
                 counted |-> CountsDrop(r),
                 emitted |-> emits, t |-> shown,
                 t_prev |-> IF iter.emitted THEN iter.t ELSE iter.t_prev,
                 fresh |-> fr ]
    /\ fresh' = IF emits THEN NoFresh ELSE fr
    /\ pc' = IF r.timedout THEN "exit" ELSE pc
    /\ UNCHANGED << prog, hz, g_stop, commands >>

\* what one iteration does after its read_frame: the slots, the sample (shown is
\* the timestamp it carries), the record; the loop goes on whatever read_frame
\* returned
Iterate(r, st, emits, fr, t, shown) ==
    /\ state' = st
    /\ now' = t
    /\ niter' = niter + 1
    /\ iter' = [ ran |-> TRUE, got_frame |-> (r.ret = "frame"),
                 timedout |-> r.timedout, errc |-> r.errc,
                 counted |-> CountsDrop(r),
                 emitted |-> emits, t |-> shown,
                 t_prev |-> IF iter.emitted THEN iter.t ELSE iter.t_prev,
                 fresh |-> fr ]
    /\ fresh' = IF emits THEN NoFresh ELSE fr
    /\ pc' = pc
    /\ UNCHANGED << prog, hz, g_stop, commands >>

\* 10^k
RECURSIVE Pow10(_)
Pow10(k) == IF k = 0 THEN 1 ELSE 10 * Pow10(k - 1)

\* the decimal digits of n >= 0
RECURSIVE Digits(_)
Digits(n) == IF n < 10 THEN 1 ELSE 1 + Digits(n \div 10)

\* the 6 significant digits an ostream prints of a double
StreamPrecision == 6

\* std::cout << t, t being a double of seconds and ticks its hundredths: the
\* number the text reads, in hundredths.  The stream rounds to 6 significant
\* digits, so from 10000 s on the text has fewer decimals than a tick.
Format6(ticks) ==
    IF Digits(ticks) <= StreamPrecision THEN ticks
    ELSE TheOne({ ((ticks + q \div 2) \div q) * q :
                  q \in { Pow10(Digits(ticks) - StreamPrecision) } })

\* imu_dir.cpp, one pass of while (true)
imu_dir_iteration(e, dev, gap) ==
    \E r \in { ReadResult(e, dev, DefaultTimeoutMs).r } :
    \E evt \in { DecodeFrame(r) } :
    \E st \in { UpdateState(state, evt) } :
    \E emits \in { st.have_accel /\ st.have_quat } :
        /\ prog = "imu_dir" /\ pc = "loop"
        /\ read_frame(e, dev, DefaultTimeoutMs)
        /\ IF emits
           THEN add_sample_poll_result(now + gap, AccelUnits(st.last_accel),
                                       QuatUnits(st.last_quat))
           ELSE UNCHANGED detVars
        /\ Iterate(r, st, emits, UpdateFresh(fresh, evt), now + gap, now + gap)

\* imu_read.cpp, the imu_dir variant, one pass of while (true)
imu_dir_read_iteration(e, dev, gap) ==
    \E r \in { ReadResult(e, dev, DefaultTimeoutMs).r } :
    \E evt \in { DecodeFrame(r) } :
    \E st \in { UpdateState(state, evt) } :
    \E emits \in { evt.some /\ st.have_accel /\ st.have_quat } :
        /\ prog = "imu_dir_read" /\ pc = "loop"
        /\ read_frame(e, dev, DefaultTimeoutMs)
        /\ IF emits
           THEN add_sample_poll_result(now + gap, AccelUnits(st.last_accel),
                                       QuatUnits(st.last_quat))
           ELSE UNCHANGED detVars
        /\ Iterate(r, st, emits, UpdateFresh(fresh, evt), now + gap, now + gap)

\* imu_read.cpp, one pass of while (!g_stop): a CSV row of zeros per frame
imu_read_iteration(e, dev, gap) ==
    \E r \in { ReadResult(e, dev, DefaultTimeoutMs).r } :
        /\ prog = "imu_read" /\ pc = "loop" /\ ~g_stop
        /\ read_frame(e, dev, DefaultTimeoutMs)
        /\ UNCHANGED detVars
        /\ Iterate(r, state, r.ret = "frame", fresh, now + gap, Format6(now + gap))

\* while (!g_stop) is left
imu_read_stopped ==
    /\ prog = "imu_read" /\ pc = "loop" /\ g_stop
    /\ pc' = "exit"
    /\ UNCHANGED << transportVars, detVars >>
    /\ UNCHANGED << prog, hz, g_stop, state, now, fresh, iter, niter, commands >>

\* SIGINT while imu_read runs
signal_handler ==
    /\ prog = "imu_read" /\ pc # "done"
    /\ g_stop' = TRUE
    /\ UNCHANGED << transportVars, detVars >>
    /\ UNCHANGED << prog, pc, hz, state, now, fresh, iter, niter, commands >>

\* SIGINT while imu_dir or its variant runs: neither calls std::signal, so the
\* process is terminated where it stands; no destructor runs and the kernel
\* releases the descriptors
sigint_default ==
    /\ prog \in {"imu_dir", "imu_dir_read"} /\ pc \notin {"done", "killed"}
    /\ pc' = "killed"
    /\ open_fds' = 0
    /\ UNCHANGED << impl, fd_, max_frame_size_, sequence_per_channel_, err, ub,
                    sent, wr, rd >>
    /\ UNCHANGED detVars
    /\ UNCHANGED << prog, hz, g_stop, state, now, fresh, iter, niter, commands >>

\* return from main: ~ShtpI2cTransport closes the bus
main_return ==
    /\ pc = "exit"
    /\ close
    /\ pc' = "done"
    /\ UNCHANGED detVars
    /\ UNCHANGED << prog, hz, g_stop, state, now, fresh, iter, niter, commands >>

\* no program runs: the transport or the detector is driven directly
LoopIdle ==
    /\ prog = "none"
    /\ pc = "none"
    /\ hz = 100
    /\ g_stop = FALSE
    /\ state = NoState
    /\ now = 0
    /\ fresh = NoFresh
    /\ iter = IdleIter
    /\ niter = 0
    /\ commands = << >>

-----------------------------------------------------------------------------
(* Specifications of the transport *)

OpenOutcomes == {"ok", "open_fail", "ioctl_fail"}

\* the sizes the programs pass to set_max_frame_size
ProgramFrameSizes == {SHTP_MAX_FRAME}

\* sizes a caller of the public set_max_frame_size may pass
AnyFrameSizes == {16, SHTP_MAX_FRAME, 1024}

TransportInit ==
    /\ impl \in Implementations
    /\ fd_ = -1
    /\ max_frame_size_ = SHTP_MAX_FRAME
    /\ sequence_per_channel_ = [c \in 0 .. SeqTableSize - 1 |-> 0]
    /\ err = "None"
    /\ open_fds = 0
    /\ ub = FALSE
    /\ sent = [c \in ShtpChannel |-> 0]
    /\ wr = IdleWr
    /\ rd = IdleRd

TotalSent == sent[0] + sent[1] + sent[2]

Init == TransportInit /\ DetectorInit(DefaultConfig) /\ LoopIdle /\ CodecIdle

\* the transport's caller leaves the detector alone
Next ==
    \/ /\ \E o \in OpenOutcomes : open(o)
       /\ UNCHANGED << detVars, loopVars, codecVars >>
    \/ /\ close
       /\ UNCHANGED << detVars, loopVars, codecVars >>
    \/ /\ \E b \in ProgramFrameSizes : set_max_frame_size(b)
       /\ UNCHANGED << detVars, loopVars, codecVars >>
    \/ /\ \E c \in ShtpChannel, p \in WritePayloads, o \in WriteOutcomes :
             TotalSent < MaxWrites /\ write_frame(c, p, o)
       /\ UNCHANGED << detVars, loopVars, codecVars >>
    \/ /\ \E e \in ReadEnvs, d \in Devices, t \in TimeoutsMs : read_frame(e, d, t)
       /\ UNCHANGED << detVars, loopVars, codecVars >>
    \/ /\ \E t \in TimeoutsMs : read_frame_back(t)
       /\ UNCHANGED << detVars, loopVars, codecVars >>

Spec == Init /\ [][Next]_vars

\* every size the public set_max_frame_size accepts
NextMax ==
    \/ /\ \E o \in OpenOutcomes : open(o)
       /\ UNCHANGED << detVars, loopVars, codecVars >>
    \/ /\ close
       /\ UNCHANGED << detVars, loopVars, codecVars >>
    \/ /\ \E b \in AnyFrameSizes : set_max_frame_size(b)
       /\ UNCHANGED << detVars, loopVars, codecVars >>
    \/ /\ \E c \in ShtpChannel, p \in WritePayloads, o \in WriteOutcomes :
             TotalSent < MaxWrites /\ write_frame(c, p, o)
       /\ UNCHANGED << detVars, loopVars, codecVars >>
    \/ /\ \E e \in ReadEnvs, d \in Devices, t \in TimeoutsMs : read_frame(e, d, t)
       /\ UNCHANGED << detVars, loopVars, codecVars >>

SpecMax == Init /\ [][NextMax]_vars

\* long runs of writes: the Control channel past the wrap of its counter,
\* interleaved with writes on the other channels
NextSeq ==
    \/ /\ \E o \in OpenOutcomes : open(o)
       /\ UNCHANGED << detVars, loopVars, codecVars >>
    \/ /\ close
       /\ UNCHANGED << detVars, loopVars, codecVars >>
    \/ /\ \E c \in ShtpChannel, o \in WriteOutcomes :
             /\ sent[c] < (IF c = Control THEN SeqWrites ELSE OtherWrites)
             /\ write_frame(c, Payload(1, 128), o)
       /\ UNCHANGED << detVars, loopVars, codecVars >>

SpecSeq == Init /\ [][NextSeq]_vars

-----------------------------------------------------------------------------
(* Specification of the detector on its own: a caller feeding samples with   *)
(* non-decreasing timestamps and polling when it likes                       *)

\* add_sample calls
MaxSamples == 8
\* the latest timestamp, in ticks
MaxTime == 110

\* ticks between two successive samples
SampleGaps == {10, 50}

\* what the sensor reports: at rest, or pushed along its z axis at 5 m/s^2
SampleAccels == { ZeroVec, << 0, 0, 500 >> }
SampleQuats == { IdentityQuat }

DetectorConfigs == { DefaultConfig, ImuDirConfig }

NextSampleTimes ==
    IF buffer_ = << >> THEN {0}
    ELSE { buffer_[Len(buffer_)].t + g : g \in SampleGaps }

InitDet ==
    /\ TransportInit
    /\ impl = "exact"
    /\ \E cfg \in DetectorConfigs : DetectorInit(cfg)
    /\ LoopIdle
    /\ CodecIdle

NextDet ==
    \/ /\ \E t \in NextSampleTimes, a \in SampleAccels, q \in SampleQuats :
             /\ nsamples < MaxSamples
             /\ t <= MaxTime
             /\ add_sample(t, a, q)
       /\ UNCHANGED << transportVars, loopVars, codecVars >>
    \/ /\ poll_result
       /\ UNCHANGED << transportVars, loopVars, codecVars >>

SpecDet == InitDet /\ [][NextDet]_vars

-----------------------------------------------------------------------------
(* Specification of the detector fed samples of which some carry the        *)
(* timestamp of the sample before them                                       *)

\* add_sample calls
SpanSamples == 6

\* ticks between two successive samples
SpanGaps == {0, 10, 50}

NextSpanTimes ==
    IF buffer_ = << >> THEN {0}
    ELSE { buffer_[Len(buffer_)].t + g : g \in SpanGaps }

NextSpan ==
    \/ /\ \E t \in NextSpanTimes, a \in SampleAccels, q \in SampleQuats :
             /\ nsamples < SpanSamples
             /\ t <= MaxTime
             /\ add_sample(t, a, q)
       /\ UNCHANGED << transportVars, loopVars, codecVars >>
    \/ /\ poll_result
       /\ UNCHANGED << transportVars, loopVars, codecVars >>

SpecSpan == InitDet /\ [][NextSpan]_vars

-----------------------------------------------------------------------------
(* Specification of the programs: each runs from the start of main() against *)
(* a device that sends sensor reports, other frames, nothing, or faults      *)

\* iterations of a read loop
MaxIterations == 4

\* ticks one iteration takes
LoopGaps == {10, 50}

\* CliConfig{}.hz
DefaultHz == 100

\* --hz: parse_args keeps it within 50..100
ProgramRates == {50, DefaultHz}

\* the device has nothing to send / the bus fails
NoDataEnv == [poll |-> "timeout", hdr |-> "timeout", body |-> "all", image |-> "same"]
BusFaultEnv == [poll |-> "error", hdr |-> "ioerror", body |-> "all", image |-> "same"]

\* the two octets of a 16-bit value, low first
Le16(v) == << v % 256, (v \div 256) % 256 >>

\* an input report: id, sequence, status, delay, then three 16-bit values
XyzRecord(id, v) == << id, 0, 3, 0 >> \o Le16(v[1]) \o Le16(v[2]) \o Le16(v[3])

\* a game-rotation-vector report: i, j, k, real
QuatRecord(q) ==
    << GameRotationVector, 0, 3, 0 >> \o Le16(q[2]) \o Le16(q[3]) \o Le16(q[4])
        \o Le16(q[1])

TimestampPrefix == << BaseTimestampRef, 0, 0, 0, 0 >>

FrameOf(ch, payload) ==
    [hdr |-> HeaderPoll(Len(payload) + HeaderLen, ch, 0), body |-> payload]

\* linear acceleration at rest and at 5 m/s^2 along z, the identity orientation,
\* a half turn about x, a gyroscope report, and a frame on the command channel
LoopDevices ==
    { FrameOf(3, TimestampPrefix \o XyzRecord(LinearAcceleration, << 0, 0, 0 >>)),
      FrameOf(3, TimestampPrefix \o XyzRecord(LinearAcceleration, << 0, 0, 1280 >>)),
      FrameOf(3, TimestampPrefix \o QuatRecord(<< 16384, 0, 0, 0 >>)),
      FrameOf(3, TimestampPrefix \o QuatRecord(<< 0, 16384, 0, 0 >>)),
      FrameOf(3, XyzRecord(Gyroscope, << 0, 0, 512 >>)),
      FrameOf(0, << 0, 1, 2, 3 >>) }

\* what the device and the bus do during one iteration
LoopInputs ==
    { [env |-> GoodEnv, dev |-> d] : d \in LoopDevices }
    \cup { [env |-> e, dev |-> FrameOf(0, << >>)] : e \in {NoDataEnv, BusFaultEnv} }

InitLoop ==
    /\ TransportInit
    /\ prog \in Programs
    /\ DetectorInit(ProgramConfig(prog))
    /\ pc = FirstStep(prog)
    /\ hz \in ProgramRates
    /\ g_stop = FALSE
    /\ state = NoState
    /\ now = 0
    /\ fresh = NoFresh
    /\ iter = IdleIter
    /\ niter = 0
    /\ commands = << >>
    /\ CodecIdle

NextLoop ==
    \/ /\ \E o \in OpenOutcomes : main_open(o)
       /\ UNCHANGED codecVars
    \/ /\ main_set_max_frame_size
       /\ UNCHANGED codecVars
    \/ /\ \E o \in {"ok", "fail"} : main_enable_report(o)
       /\ UNCHANGED codecVars
    \/ /\ \E i \in LoopInputs, g \in LoopGaps :
             niter < MaxIterations /\ imu_dir_iteration(i.env, i.dev, g)
       /\ UNCHANGED codecVars
    \/ /\ \E i \in LoopInputs, g \in LoopGaps :
             niter < MaxIterations /\ imu_dir_read_iteration(i.env, i.dev, g)
       /\ UNCHANGED codecVars
    \/ /\ \E i \in LoopInputs, g \in LoopGaps :
             niter < MaxIterations /\ imu_read_iteration(i.env, i.dev, g)
       /\ UNCHANGED codecVars
    \/ /\ imu_read_stopped
       /\ UNCHANGED codecVars
    \/ /\ signal_handler
       /\ UNCHANGED codecVars
    \/ /\ main_return
       /\ UNCHANGED codecVars

SpecLoop == InitLoop /\ [][NextLoop]_vars

-----------------------------------------------------------------------------
(* Specification of the programs on a device that batches its reports: a      *)
(* frame carries one report or several, back to back                          *)

\* iterations of a read loop
BatchIterations == 2

\* the octets of an input report, implied by its ID: 4 of header and three or
\* four 16-bit values
ReportLen(id) == IF id = GameRotationVector THEN 12 ELSE 10

\* the payloads of the frames: after the timestamp prefix, linear acceleration
\* then orientation, orientation then linear acceleration, two linear
\* accelerations then the orientation, or one report
BatchPayloads ==
    { XyzRecord(LinearAcceleration, << 0, 0, 1280 >>) \o QuatRecord(<< 0, 16384, 0, 0 >>),
      QuatRecord(<< 16384, 0, 0, 0 >>) \o XyzRecord(LinearAcceleration, << 0, 0, 0 >>),
      XyzRecord(LinearAcceleration, << 0, 0, 0 >>)
          \o XyzRecord(LinearAcceleration, << 0, 0, 1280 >>)
          \o QuatRecord(<< 16384, 0, 0, 0 >>),
      XyzRecord(LinearAcceleration, << 0, 0, 1280 >>),
      QuatRecord(<< 0, 16384, 0, 0 >>) }

BatchInputs ==
    { [env |-> GoodEnv, dev |-> FrameOf(3, TimestampPrefix \o p)] : p \in BatchPayloads }
    \cup { [env |-> NoDataEnv, dev |-> FrameOf(0, << >>)] }

NextBatch ==
    \/ /\ \E o \in OpenOutcomes : main_open(o)
       /\ UNCHANGED codecVars
    \/ /\ main_set_max_frame_size
       /\ UNCHANGED codecVars
    \/ /\ \E o \in {"ok", "fail"} : main_enable_report(o)
       /\ UNCHANGED codecVars
    \/ /\ \E i \in BatchInputs, g \in LoopGaps :
             niter < BatchIterations /\ imu_dir_iteration(i.env, i.dev, g)
       /\ UNCHANGED codecVars
    \/ /\ \E i \in BatchInputs, g \in LoopGaps :
             niter < BatchIterations /\ imu_dir_read_iteration(i.env, i.dev, g)
       /\ UNCHANGED codecVars
    \/ /\ \E i \in BatchInputs, g \in LoopGaps :
             niter < BatchIterations /\ imu_read_iteration(i.env, i.dev, g)
       /\ UNCHANGED codecVars
    \/ /\ imu_read_stopped
       /\ UNCHANGED codecVars
    \/ /\ signal_handler
       /\ UNCHANGED codecVars
    \/ /\ main_return
       /\ UNCHANGED codecVars

SpecBatch == InitLoop /\ [][NextBatch]_vars

-----------------------------------------------------------------------------
(* Specification of the programs with SIGINT delivered to any of them, at any *)
(* moment                                                                     *)

\* iterations of a read loop
StopIterations == 2

NextStop ==
    \/ /\ \E o \in OpenOutcomes : main_open(o)
       /\ UNCHANGED codecVars
    \/ /\ main_set_max_frame_size
       /\ UNCHANGED codecVars
    \/ /\ \E o \in {"ok", "fail"} : main_enable_report(o)
       /\ UNCHANGED codecVars
    \/ /\ \E i \in LoopInputs, g \in LoopGaps :
             niter < StopIterations /\ imu_dir_iteration(i.env, i.dev, g)
       /\ UNCHANGED codecVars
    \/ /\ \E i \in LoopInputs, g \in LoopGaps :
             niter < StopIterations /\ imu_dir_read_iteration(i.env, i.dev, g)
       /\ UNCHANGED codecVars
    \/ /\ \E i \in LoopInputs, g \in LoopGaps :
             niter < StopIterations /\ imu_read_iteration(i.env, i.dev, g)
       /\ UNCHANGED codecVars
    \/ /\ imu_read_stopped
       /\ UNCHANGED codecVars
    \/ /\ signal_handler
       /\ UNCHANGED codecVars
    \/ /\ sigint_default
       /\ UNCHANGED codecVars
    \/ /\ main_return
       /\ UNCHANGED codecVars

SpecStop == InitLoop /\ [][NextStop]_vars

-----------------------------------------------------------------------------
(* Specification of the programs at the pace of the sensor: an iteration      *)
(* takes 10 or 20 ms, or, the process being stopped and continued or the      *)
(* device silent, as long as the hours a recording lasts                      *)

\* iterations of a read loop
RowIterations == 3

\* 10000 s, in ticks
LongGap == 1000000

\* ticks one iteration takes
RowGaps == {1, 2, LongGap}

\* imu_read sleeps 1 / cfg.hz seconds after each row
AtPace(g) == prog = "imu_read" => g * hz >= 100

NextRows ==
    \/ /\ \E o \in OpenOutcomes : main_open(o)
       /\ UNCHANGED codecVars
    \/ /\ main_set_max_frame_size
       /\ UNCHANGED codecVars
    \/ /\ \E o \in {"ok", "fail"} : main_enable_report(o)
       /\ UNCHANGED codecVars
    \/ /\ \E i \in LoopInputs, g \in RowGaps :
             niter < RowIterations /\ imu_dir_iteration(i.env, i.dev, g)
       /\ UNCHANGED codecVars
    \/ /\ \E i \in LoopInputs, g \in RowGaps :
             niter < RowIterations /\ imu_dir_read_iteration(i.env, i.dev, g)
       /\ UNCHANGED codecVars
    \/ /\ \E i \in LoopInputs, g \in RowGaps :
             niter < RowIterations /\ AtPace(g) /\ imu_read_iteration(i.env, i.dev, g)
       /\ UNCHANGED codecVars
    \/ /\ imu_read_stopped
       /\ UNCHANGED codecVars
    \/ /\ signal_handler
       /\ UNCHANGED codecVars
    \/ /\ main_return
       /\ UNCHANGED codecVars

SpecRows == InitLoop /\ [][NextRows]_vars

-----------------------------------------------------------------------------
(* Specification of the detector fed a stream: one second at 100 Hz of       *)
(* gravity along x and a half-sine push of 5 m/s^2 along z, the sensor       *)
(* being level, with a caller that polls when it likes                       *)

\* add_sample calls of the stream: t = 0.00, 0.01, ... s
StreamSamples == 100

\* 5 * sin(pi * t) m/s^2 for t = 0.00 .. 0.50 s, rounded to hundredths
HalfSine ==
    << 0, 16, 31, 47, 63, 78, 94, 109, 124, 139,
       155, 169, 184, 199, 213, 227, 241, 255, 268, 281,
       294, 306, 319, 331, 342, 354, 364, 375, 385, 395,
       405, 414, 422, 430, 438, 446, 452, 459, 465, 470,
       476, 480, 484, 488, 491, 494, 496, 498, 499, 500,
       500 >>

\* 5 * sin(pi * t) at tick k
PushZ(k) ==
    IF k <= 50 THEN HalfSine[k + 1]
    ELSE IF k <= 100 THEN HalfSine[101 - k]
    ELSE -HalfSine[k - 99]

\* a_world = (9.81, 0, 0) + (0, 0, 5 * sin(pi * t))
StreamAccel(k) == << 981, 0, PushZ(k) >>

InitStream ==
    /\ TransportInit
    /\ impl = "exact"
    /\ DetectorInit(DefaultConfig)
    /\ LoopIdle
    /\ CodecIdle

NextStream ==
    \/ /\ nsamples < StreamSamples
       /\ add_sample(nsamples, StreamAccel(nsamples), IdentityQuat)
       /\ UNCHANGED << transportVars, loopVars, codecVars >>
    \/ /\ poll_result
       /\ UNCHANGED << transportVars, loopVars, codecVars >>

SpecStream == InitStream /\ [][NextStream]_vars

-----------------------------------------------------------------------------
(* Specification of the detector pushed along every axis: three samples at   *)
(* rest, 0.1 s apart, then pushes of 5 m/s^2 either way along x, y or z,    *)
(* level or turned half a turn about x, or along two or three axes at once   *)

\* add_sample calls
MaxAxisSamples == 7

\* what the sensor reports: its acceleration and its orientation
AxisInputs ==
    { [accel |-> a, quat |-> IdentityQuat] :
        a \in { ZeroVec, << 500, 0, 0 >>, << -500, 0, 0 >>, << 0, 500, 0 >>,
                << 0, -500, 0 >>, << 0, 0, 500 >>, << 0, 0, -500 >>,
                << 0, -500, 500 >>, << -500, -500, -500 >> } }
    \cup { [accel |-> << 0, 500, 0 >>, quat |-> << 0, 1, 0, 0 >>] }

InitAxes ==
    /\ TransportInit
    /\ impl = "exact"
    /\ DetectorInit(DefaultConfig)
    /\ LoopIdle
    /\ CodecIdle

NextAxes ==
    \/ /\ \E i \in AxisInputs :
             /\ nsamples < MaxAxisSamples
             /\ nsamples < 3 => i.accel = ZeroVec
             /\ add_sample(10 * nsamples, i.accel, i.quat)
       /\ UNCHANGED << transportVars, loopVars, codecVars >>
    \/ /\ poll_result
       /\ UNCHANGED << transportVars, loopVars, codecVars >>

SpecAxes == InitAxes /\ [][NextAxes]_vars

-----------------------------------------------------------------------------
(* Specification of the SH-2 codec: its functions called on their own with   *)
(* arguments of every shape                                                  *)

\* enum class Sh2SensorId, every enumerator
SensorIds == {1, 2, 4, 6, 8, 17, 19, 24, 30}

\* report intervals in microseconds: the rates of the programs, the borders of
\* each octet, and 0x12345678
Intervals == {0, 1, 255, 256, 10000, 20000, 65535, 65536, 16777215, 16777216,
              305419896, 2147483647}

\* sizes of the caller's buffer
BufLens == {0, 16, 17, 18, 32}

\* report IDs: the four that are decoded, and others
ReportIds == {0, 1, 2, 3, 4, 8, 251, 255}

\* status octets: each accuracy, and one with higher bits set
Statuses == {0, 1, 2, 3, 134}

\* 16-bit words of a report: 0x0100, 0x0200, 0xFF00, and the ends of the range
RawVectors == { << 0, 0, 0 >>, << 256, 512, 65280 >>, << 32767, 32768, 65535 >> }

\* the fourth word of a report: 0, 0x4000, 0xC000
RawFourth == {0, 16384, 49152}

\* a report of 14 octets: ID, sequence, status, delay, four words, two octets more
FullRecord(id, status, v, w) ==
    << id, 0, status, 0 >> \o Le16(v[1]) \o Le16(v[2]) \o Le16(v[3]) \o Le16(w)
        \o << 170, 85 >>

\* the reports, whole and cut short at every length
Records ==
    { SubSeq(FullRecord(id, st, v, w), 1, n) :
        id \in ReportIds, st \in Statuses, v \in RawVectors, w \in RawFourth,
        n \in 0 .. 14 }

\* payloads of sensor-channel frames: a report, with or without the prefix
Payloads == Records \cup { << BaseTimestampRef, 16, 0, 0, 0 >> \o r : r \in Records }

\* each behaviour of this specification is one call
build_command(sensor, interval_us, max_len) ==
    /\ call = NoCall
    /\ call' = [ fn |-> "build_enable_report_command", sensor |-> sensor,
                 interval_us |-> interval_us, max_len |-> max_len,
                 out |-> build_enable_report_command(sensor, interval_us, max_len) ]
    /\ UNCHANGED << transportVars, detVars, loopVars >>

parse_event(data) ==
    /\ call = NoCall
    /\ call' = [ fn |-> "parse_sh2_sensor_event", data |-> data,
                 out |-> parse_sh2_sensor_event(data) ]
    /\ UNCHANGED << transportVars, detVars, loopVars >>

\* what the read loops do with the payload of a frame on channels 2..5
decode_payload(payload) ==
    /\ call = NoCall
    /\ call' = [ fn |-> "decode_payload", data |-> payload,
                 out |-> DecodePayload(payload) ]
    /\ UNCHANGED << transportVars, detVars, loopVars >>

InitCodec ==
    /\ TransportInit
    /\ impl = "exact"
    /\ DetectorInit(DefaultConfig)
    /\ LoopIdle
    /\ CodecIdle

NextCodec ==
    \/ \E s \in SensorIds, i \in Intervals, m \in BufLens : build_command(s, i, m)
    \/ \E r \in Records : parse_event(r)
    \/ \E p \in Payloads : decode_payload(p)

SpecCodec == InitCodec /\ [][NextCodec]_vars

-----------------------------------------------------------------------------
(* Specification of sh2_set_feature called on a transport that its caller    *)
(* opens and closes                                                          *)

\* report intervals that fit the uint16_t parameter: the rates of the programs
\* and the borders of its two octets
FeatureIntervals == {1, 255, 256, 10000, 20000, 65535}

\* sh2_set_feature(transport, sensorId, interval_us, err): the payload is built
\* and written on the Control channel
sh2_set_feature_send(sensorId, interval_us, out) ==
    /\ write_frame(Control, sh2_set_feature(sensorId, interval_us), out)
    /\ call' = [ fn |-> "sh2_set_feature", sensor |-> sensorId,
                 interval_us |-> interval_us ]
    /\ UNCHANGED << detVars, loopVars >>

NextFeature ==
    \/ /\ \E o \in OpenOutcomes : open(o)
       /\ UNCHANGED << detVars, loopVars, codecVars >>
    \/ /\ close
       /\ UNCHANGED << detVars, loopVars, codecVars >>
    \/ \E s \in SensorIds, i \in FeatureIntervals, o \in WriteOutcomes :
          TotalSent < MaxWrites /\ sh2_set_feature_send(s, i, o)

SpecFeature == Init /\ [][NextFeature]_vars

-----------------------------------------------------------------------------
(* Specification of the command lines: each program started with a --hz       *)
(* argument, up to the first division by cfg.hz                                *)

\* the four programs that take --hz
ArgPrograms == Programs \cup {"imu_status"}

\* atoi of the --hz argument; atoi of a text that is no number is 0
RequestedRates == (-1 .. 101) \cup {399, 400, 401, 1000}

\* --duration of imu_status, seconds
Durations == {0, 1}

\* the bounds parse_args puts on cfg.hz
MinHz == 50
MaxHz == 100

\* parse_args, the --hz argument: whether it returns true, and cfg.hz after it
parse_args(p, requested) ==
    CASE p \in {"imu_dir", "imu_read"} ->
             [ ok |-> ~(requested < MinHz \/ requested > MaxHz), hz |-> requested ]
      [] p = "imu_dir_read" ->
             [ ok |-> TRUE,
               hz |-> IF requested < MinHz THEN MinHz
                      ELSE IF requested > MaxHz THEN MaxHz ELSE requested ]
      [] OTHER ->
             [ ok |-> TRUE, hz |-> requested ]

\* whether main, the bus answering, comes to divide by cfg.hz: 1'000'000 / hz in
\* enable_report and enable_report_accel, 1.0 / cfg.hz in imu_read, and
\* count / cfg.hz in imu_status when a duration is given
DividesByHz(p, parsed, duration) ==
    parsed.ok /\ (p = "imu_status" => duration > 0)

\* main from its start to that division; dividing an integer by 0 is undefined
main_args(p, requested, duration) ==
    \E parsed \in { parse_args(p, requested) } :
        /\ call = NoCall
        /\ call' = [ fn |-> "main_args", prog |-> p, requested |-> requested,
                     duration |-> duration, ok |-> parsed.ok, hz |-> parsed.hz,
                     divides |-> DividesByHz(p, parsed, duration),
                     undefined |-> (DividesByHz(p, parsed, duration) /\ parsed.hz = 0
                                    /\ p # "imu_read") ]
        /\ UNCHANGED << transportVars, detVars, loopVars >>

NextArgs ==
    \E p \in ArgPrograms, r \in RequestedRates, d \in Durations : main_args(p, r, d)

SpecArgs == InitCodec /\ [][NextArgs]_vars

-----------------------------------------------------------------------------
(* Specification of the session manager (Imu of imu_rust): a session in some  *)
(* state of streaming, and handle_reset called on it in succession             *)

\* the channels the session writes on
SessionChannels == {"Executable", "HubControl"}

\* the buffers of the last value of each sensor (ValueSlot)
Slots == {"linear", "absolute", "gyro", "quat"}

\* the reports enable_reports configures
DefaultReports ==
    {LinearAcceleration, Accelerometer, Gyroscope, GameRotationVector}

\* the rates of ImuConfig and of a later enable_reports(hz)
SessionRates == {50, 100}

\* the monotonic clock at a call, and the ticks a call may take
SessionTimes == {0, 7}
ResetDelays == {1, 2}

\* handle_reset calls in succession
MaxResets == 2

\* a slot without a value, its marker at zero
EmptySlots == [ k \in Slots |-> [ value |-> 0, marker |-> 0 ] ]

\* clear_measurements: the buffered values and the frame markers are reset
clear_measurements(s) == [ s EXCEPT !.slots = EmptySlots ]

\* a packet sent on a channel takes that channel's next sequence number
send_packet(s, ch) == [ s EXCEPT !.seq[ch] = (@ + 1) % 256 ]

\* the session with all its internal state cleared: slots, markers, timestamps,
\* sequence table, the flags (init, reset, last error)
ClearedState(s) ==
    [ s EXCEPT !.slots = EmptySlots,
               !.seq = [ ch \in SessionChannels |-> 0 ],
               !.enabled = << >>,
               !.pending_reset = FALSE,
               !.initialized = FALSE,
               !.last_error = 0,
               !.epoch = -1 ]

\* the sequence table left as it is when the state is cleared
bootstrap_keep_seq(s, answered, clock) ==
    TheOne({ IF answered THEN [ c EXCEPT !.initialized = TRUE, !.epoch = clock ] ELSE c :
             c \in { send_packet(send_packet([ ClearedState(s) EXCEPT !.seq = s.seq ],
                                             "Executable"), "HubControl") } })

\* bootstrap: clear the state, soft reset on the executable channel, the start-up
\* packets consumed, the product ID asked for on the hub control channel; with the
\* answer the session is initialised and its clock's epoch recorded
bootstrap(s, answered, clock) ==
    TheOne({ IF answered THEN [ c EXCEPT !.initialized = TRUE, !.epoch = clock ] ELSE c :
             c \in { send_packet(send_packet(ClearedState(s), "Executable"),
                                 "HubControl") } })

\* enable_reports: one set-feature command on the hub control channel for each
\* report, its interval 1_000_000 / hz microseconds
RECURSIVE SendFeatures(_, _)
SendFeatures(s, n) ==
    IF n = 0 THEN s ELSE SendFeatures(send_packet(s, "HubControl"), n - 1)

enable_reports(s, rate) ==
    [ SendFeatures(s, Cardinality(DefaultReports))
        EXCEPT !.enabled = [ r \in DefaultReports |-> 1000000 \div rate ] ]

\* handle_reset: bootstrap, then the reports enabled again at the configured rate
\* and the measurement buffers cleared; without the product ID it fails first
handle_reset(s, answered, clock) ==
    IF answered
    THEN clear_measurements(enable_reports(bootstrap(s, answered, clock), s.hz))
    ELSE bootstrap(s, answered, clock)

\* the session but for its timestamps
ModuloTimestamps(s) == [ s EXCEPT !.epoch = 0 ]

\* the states of a session that streams: values in some slots, reports enabled at
\* the configured or at another rate, a reset of the device seen or not
StreamingSessions ==
    { [ hz |-> h,
        slots |-> [ k \in Slots |-> IF k \in f THEN [ value |-> 1, marker |-> m ]
                                              ELSE [ value |-> 0, marker |-> 0 ] ],
        seq |-> [ ch \in SessionChannels |->
                    IF ch = "Executable" THEN 1
                    ELSE 1 + e * Cardinality(DefaultReports) ],
        enabled |-> [ r \in DefaultReports |-> 1000000 \div h2 ],
        pending_reset |-> pr,
        initialized |-> TRUE,
        last_error |-> le,
        epoch |-> t ] :
      h \in SessionRates, h2 \in SessionRates, f \in {{}, {"quat"}, Slots}, m \in {1, 2},
      e \in {1, 2}, pr \in BOOLEAN, le \in {0, 1}, t \in SessionTimes }

\* a session is taken over in some state of streaming
session_start(s0) ==
    /\ call = NoCall
    /\ call' = [ fn |-> "session", before |-> s0, session |-> s0, resets |-> 0,
                 answers |-> << >>, now |-> s0.epoch ]
    /\ UNCHANGED << transportVars, detVars, loopVars >>

\* the next handle_reset in succession; the device answers the product ID
\* request or not
session_handle_reset(answered, dt) ==
    /\ call.fn = "session"
    /\ call.resets < MaxResets
    /\ call' = [ call EXCEPT !.session = handle_reset(@, answered, call.now + dt),
                             !.resets = @ + 1,
                             !.answers = Append(@, answered),
                             !.now = @ + dt ]
    /\ UNCHANGED << transportVars, detVars, loopVars >>

NextSession ==
    \/ \E s0 \in StreamingSessions : session_start(s0)
    \/ \E a \in BOOLEAN, dt \in ResetDelays : session_handle_reset(a, dt)

SpecSession == InitCodec /\ [][NextSession]_vars

-----------------------------------------------------------------------------
(* Specification of one bus read, system call by system call: read_exact of   *)
(* shtp_linux_i2c.cpp, and read_frame of the poll() variant; times in ms       *)

\* the timeout_ms of the call
ReadTimeouts == {0, 1, 3}

\* the octets read_exact is asked for
ReadLens == {1, HeaderLen}

\* what the steady clock advances between two readings of it
ReadDelays == {0, 1, 2}

\* the clock is followed up to this reading
MaxReadClock == 6

\* the calls that said try again are counted up to this number
MaxAgain == 3

\* errno of a ::read or ::poll that returns -1
TryAgain == {"EAGAIN", "EINTR"}
ReadErrnos == TryAgain \cup {"EIO"}

\* what a ::read of up to len octets returns: -1 and an errno, 0 at the end of the
\* file, or the number of octets it delivered
ReadResults(len) ==
    { [ n |-> -1, errno |-> e ] : e \in ReadErrnos }
        \cup { [ n |-> k, errno |-> "none" ] : k \in 0 .. len }

\* a read without a result yet
RunningRead(fn, len, timeout_ms) ==
    [ fn |-> fn, len |-> len, timeout_ms |-> timeout_ms,
      deadline |-> timeout_ms,     \* clock::now() + timeout_ms, now being 0
      clock |-> 0,                 \* the steady clock
      offset |-> 0,                \* octets received
      nreads |-> 0,                \* ::read calls that said anything else
      again |-> 0,                 \* ::read or ::poll calls that said try again,
                                   \* counted up to MaxAgain
      other |-> FALSE,             \* a ::read said anything else: an error, EOF, octets
      pc |-> "loop",               \* loop, poll, header, frame, returned
      ok |-> FALSE, errc |-> "None" ]

ReadReturns(c, ok, errc) == [ c EXCEPT !.pc = "returned", !.ok = ok, !.errc = errc ]

\* read_exact is entered
read_exact_enter(len, timeout_ms) ==
    /\ call = NoCall
    /\ impl = "exact"
    /\ call' = IF fd_ < 0
                 THEN ReadReturns(RunningRead("read_exact", len, timeout_ms),
                                  FALSE, "NotOpen")
                 ELSE RunningRead("read_exact", len, timeout_ms)
    /\ UNCHANGED << transportVars, detVars, loopVars >>

\* one pass of while (offset < len): the deadline, then ::read and its result o
read_exact_pass_of(c, o) ==
    IF c.timeout_ms > 0 /\ c.clock >= c.deadline
      THEN ReadReturns(c, FALSE, "Timeout")
    ELSE IF o.n < 0 /\ o.errno \in TryAgain
      THEN [ c EXCEPT !.again = IF @ < MaxAgain THEN @ + 1 ELSE @ ]
    ELSE IF o.n <= 0
      THEN ReadReturns([ c EXCEPT !.nreads = @ + 1, !.other = TRUE ], FALSE, "IoError")
    ELSE IF c.offset + o.n >= c.len
      THEN ReadReturns([ c EXCEPT !.nreads = @ + 1, !.other = TRUE, !.offset = @ + o.n ],
                       TRUE, "None")
    ELSE [ c EXCEPT !.nreads = @ + 1, !.other = TRUE, !.offset = @ + o.n ]

read_exact_pass(o, dt) ==
    /\ call.fn = "read_exact"
    /\ call.pc = "loop"
    /\ call.clock < MaxReadClock
    /\ o \in ReadResults(call.len - call.offset)
    /\ call' = [ read_exact_pass_of(call, o) EXCEPT !.clock = @ + dt ]
    /\ UNCHANGED << transportVars, detVars, loopVars >>

\* read_frame of the poll() variant is entered
read_frame_poll_enter(timeout_ms) ==
    /\ call = NoCall
    /\ impl = "poll"
    /\ call' = IF fd_ < 0
                 THEN ReadReturns(RunningRead("read_frame", HeaderLen, timeout_ms),
                                  FALSE, "NotOpen")
                 ELSE [ RunningRead("read_frame", HeaderLen, timeout_ms)
                          EXCEPT !.pc = "poll" ]
    /\ UNCHANGED << transportVars, detVars, loopVars >>

\* ::poll(&pfd, 1, timeout_ms) returns 0 when nothing arrived in time, -1 with an
\* errno, or 1
read_frame_poll_wait(o) ==
    /\ call.fn = "read_frame"
    /\ call.pc = "poll"
    /\ call' = CASE o = "expired" ->
                      ReadReturns([ call EXCEPT !.clock = @ + call.timeout_ms ],
                                  FALSE, "None")
                 [] o = "EINTR" ->
                      ReadReturns([ call EXCEPT !.again = @ + 1 ], FALSE, "IoError")
                 [] OTHER -> [ call EXCEPT !.pc = "header" ]
    /\ UNCHANGED << transportVars, detVars, loopVars >>

\* the one ::read of the header, then the one ::read of the frame; o is an
\* errno, EOF, "short", "length" (a length out of bounds or not the header's),
\* or "all"
read_frame_poll_read(o) ==
    /\ call.fn = "read_frame"
    /\ call.pc \in {"header", "frame"}
    /\ \E c \in { [ call EXCEPT !.nreads = IF o \in TryAgain THEN @ ELSE @ + 1,
                                !.again = IF o \in TryAgain THEN @ + 1 ELSE @,
                                !.other = @ \/ o \notin TryAgain ] } :
          call' = IF o \in ReadErrnos
                    THEN ReadReturns(c, FALSE, "IoError")
                  ELSE IF o = "EOF"
                    THEN ReadReturns(c, FALSE,
                                     IF call.pc = "header" THEN "None" ELSE "IoError")
                  ELSE IF o = "short"
                    THEN ReadReturns(c, FALSE, "IoError")
                  ELSE IF o = "length"
                    THEN ReadReturns(c, FALSE,
                                     IF call.pc = "header" THEN "OversizeFrame"
                                     ELSE "InvalidHeader")
                  ELSE IF call.pc = "header"
                    THEN [ c EXCEPT !.offset = HeaderLen, !.pc = "frame" ]
                  ELSE ReadReturns(c, TRUE, "None")
    /\ UNCHANGED << transportVars, detVars, loopVars >>

\* the transport is opened, or fails to open, before the read
read_open(o) ==
    /\ call = NoCall
    /\ fd_ < 0
    /\ open(o)
    /\ UNCHANGED << detVars, loopVars, codecVars >>

NextRead ==
    \/ \E o \in OpenOutcomes : read_open(o)
    \/ \E l \in ReadLens, t \in ReadTimeouts : read_exact_enter(l, t)
    \/ \E o \in ReadResults(HeaderLen), dt \in ReadDelays :
          read_exact_pass(o, dt)
    \/ \E t \in ReadTimeouts : read_frame_poll_enter(t)
    \/ \E o \in {"expired", "EINTR", "ready"} : read_frame_poll_wait(o)
    \/ \E o \in ReadErrnos \cup {"EOF", "short", "length", "all"} :
          read_frame_poll_read(o)

\* the clock advances while the thread runs
ClockAdvances ==
    \E o \in ReadResults(HeaderLen), dt \in ReadDelays \ {0} :
        read_exact_pass(o, dt)

\* a system call returns
SyscallReturns ==
    \/ \E o \in {"expired", "EINTR", "ready"} : read_frame_poll_wait(o)
    \/ \E o \in ReadErrnos \cup {"EOF", "short", "length", "all"} :
          read_frame_poll_read(o)

SpecRead ==
    Init /\ [][NextRead]_vars /\ WF_vars(ClockAdvances) /\ WF_vars(SyscallReturns)

-----------------------------------------------------------------------------
(* Claims about the transport *)

\* C1: the frames handed to the bus on a channel carry the sequence octets
\* s, s+1, s+2, ... modulo 256 (s = 0 after construction), whatever is written
\* on the other channels: each channel's counter counts that channel's frames only.
C1_SequenceOctets ==
    /\ wr.frame # << >> =>
          /\ wr.frame[3] = wr.channel
          /\ wr.frame[4] = (sent[wr.channel] - 1) % 256
    /\ \A c \in ShtpChannel : sequence_per_channel_[c] = sent[c] % 256

C1_Witness ==
    /\ wr.frame # << >>
    /\ wr.channel = Control
    /\ sent[Control] = 257
    /\ wr.frame[4] = 0
    /\ sent[0] >= 1
    /\ sent[2] >= 1

\* the length the claims speak of: the low 15 bits of the header's length field
HeaderLength(h) == MaskContinuation(RawLength(h))

\* C3: a header whose raw length has the continuation bit set and whose low 15
\* bits L satisfy 4 <= L <= 512 is not rejected as oversize, and a frame read
\* from it has total length L.
C3_ContinuationMasked ==
    ( /\ rd.called
      /\ rd.hdr1 # << >>
      /\ RawLength(rd.hdr1) >= 32768
      /\ HeaderLength(rd.hdr1) >= HeaderLen
      /\ HeaderLength(rd.hdr1) <= SHTP_MAX_FRAME )
    => /\ rd.errc # "OversizeFrame"
       /\ rd.ret = "frame" =>
             Len(rd.frame.payload) + HeaderLen = HeaderLength(rd.hdr1)

\* C4: every frame read_frame returns has (length_le & 0x7FFF) = payload.size() + 4,
\* and its channel and sequence are octets 2 and 3 of the header it was parsed from.
C4_FrameLength ==
    rd.ret = "frame" =>
        /\ MaskContinuation(rd.frame.length_le) = Len(rd.frame.payload) + HeaderLen
        /\ Len(rd.hdr) = HeaderLen
        /\ rd.frame.channel = rd.hdr[3]
        /\ rd.frame.sequence = rd.hdr[4]

C4_Witness ==
    /\ rd.ret = "frame"
    /\ ~rd.loop
    /\ Len(rd.frame.payload) = 16
    /\ rd.frame.channel = 3
    /\ rd.frame.sequence = 127

\* C5: reading back the octets write_frame(channel, payload) transmitted, on an
\* open transport, yields a frame with that channel and that payload.
C5_RoundTrip ==
    (rd.called /\ rd.loop /\ rd.errc # "NotOpen") =>
        /\ rd.ret = "frame"
        /\ rd.frame.channel = wr.channel
        /\ rd.frame.payload = wr.payload

C5_Witness ==
    /\ rd.called /\ rd.loop
    /\ rd.ret = "frame"
    /\ Len(wr.payload) = 508
    /\ rd.frame.payload = wr.payload

\* C6: whatever set_max_frame_size was given, every length read_frame accepts and
\* every frame write_frame builds is within 4..512, and no access runs past the
\* end of a 512-octet buffer.
C6_FrameWithinBuffer ==
    /\ ~ub
    /\ rd.accepted <= SHTP_MAX_FRAME
    /\ wr.frame # << >> => (Len(wr.frame) >= HeaderLen /\ Len(wr.frame) <= SHTP_MAX_FRAME)

\* C7: a header length above MAX_FRAME fails with OversizeFrame, one below 4 with
\* InvalidHeader, and neither returns a frame.
C7_LengthErrorKinds ==
    (rd.called /\ rd.hdr1 # << >>) =>
        /\ HeaderLength(rd.hdr1) > SHTP_MAX_FRAME =>
              (rd.errc = "OversizeFrame" /\ rd.ret = "none")
        /\ HeaderLength(rd.hdr1) < HeaderLen =>
              (rd.errc = "InvalidHeader" /\ rd.ret = "none")

\* C8: when no data arrives within the timeout, read_frame returns no frame and
\* leaves the error code None.
C8_TimeoutIsNoError ==
    (rd.called /\ rd.timedout) => (rd.ret = "none" /\ rd.errc = "None")

\* C9: a bus read that delivers fewer octets than requested makes read_frame fail
\* with an error; it never goes on to return a frame.
C9_ShortReadFails ==
    (rd.called /\ rd.short) => (rd.ret = "none" /\ rd.errc # "None")

-----------------------------------------------------------------------------
(* Claims about the detector *)

\* C2: with poll_result called after every add_sample (timestamps non-decreasing),
\* two successive results the detector hands out have strictly increasing
\* t_center, at least min_gesture_interval apart.
C2_GestureSeparation ==
    (everyPolled /\ Len(polled) = 2) =>
        /\ polled[2].t_center > polled[1].t_center
        /\ polled[2].t_center - polled[1].t_center >= cfg_.min_gesture_interval

\* the results the detector has stored so far and not yet lost
Results == polled \o pending_result_

\* C11: the 1-second 100 Hz stream with the half-sine push along z produces a
\* gesture, and every gesture it produces has axis Z, sign +, label RIGHT and
\* t_center within 0.1 s of 0.5 s, the time of the maximum of the push.
C11_StreamGesture ==
    /\ nsamples = StreamSamples => Results # << >>
    /\ \A i \in 1 .. Len(Results) :
          /\ Results[i].axis = "Z"
          /\ Results[i].sign = "+"
          /\ Results[i].label = "RIGHT"
          /\ Results[i].t_center >= 40
          /\ Results[i].t_center <= 60

\* C20: every result the detector stores has axis X, Y or Z, sign + or -, and the
\* label of its axis and sign: X+ UP, X- DOWN, Y+ FORWARD, Y- BACKWARD, Z+ RIGHT,
\* Z- LEFT.
C20_LabelPolicy ==
    \A i \in 1 .. Len(Results) :
        << Results[i].axis, Results[i].sign, Results[i].label >> \in
            { << "X", "+", "UP" >>, << "X", "-", "DOWN" >>,
              << "Y", "+", "FORWARD" >>, << "Y", "-", "BACKWARD" >>,
              << "Z", "+", "RIGHT" >>, << "Z", "-", "LEFT" >> }

C20_Witness ==
    /\ Len(polled) = 1
    /\ << polled[1].axis, polled[1].sign, polled[1].label >> = << "Y", "-", "BACKWARD" >>
    /\ buffer_[Len(buffer_)].quat = << 0, 1, 0, 0 >>

\* C21: poll_result hands out at most the one pending result and clears it: right
\* after a call nothing is pending, so further calls return none until add_sample
\* detects a new gesture, and a call that finds nothing pending returns nothing.
C21_DrainOnce ==
    /\ [](~unpolled => pending_result_ = << >>)
    /\ [][(nsamples' = nsamples /\ pending_result_ = << >>) => polled' = polled]_vars

C21_Witness ==
    /\ Len(polled) = 1
    /\ ~unpolled
    /\ pending_result_ = << >>
    /\ nsamples >= 6
    /\ last_gesture_time_ < buffer_[Len(buffer_)].t

\* C31: the detector is dormant until the baseline exists: no result is stored
\* while has_baseline() is false, has_baseline() is false until 3 samples have
\* been added, and no result has its t_center before the end of the baseline
\* window.
C31_DormantUntilBaseline ==
    /\ ~baseline_computed_ => Results = << >>
    /\ baseline_computed_ => nsamples >= 3
    /\ \A i \in 1 .. Len(Results) : Results[i].t_center >= t_baseline_end_

\* a result whose peak is the first sample past the baseline window, while a
\* sample inside the window is still buffered and lies further from the baseline
C31_Witness ==
    /\ Len(Results) >= 1
    /\ Results[1].t_center = t_baseline_end_ + 10
    /\ \E i \in 1 .. Len(buffer_) :
          /\ buffer_[i].t < t_baseline_end_
          /\ \A j \in 1 .. Len(buffer_) :
                NormSq(Dyn(buffer_[i].accel, a0_world_))
                    >= NormSq(Dyn(buffer_[j].accel, a0_world_))

\* the add_sample call that came last stored a result
JustDetected ==
    /\ buffer_ # << >>
    /\ last_gesture_time_ = buffer_[Len(buffer_)].t
    /\ Results # << >>

\* ||a_dyn|| of the i-th buffered sample, squared and multiplied by n^2
DynSq(i) == NormSq(Dyn(buffer_[i].accel, a0_world_))

\* the result stored last has the peak sample among the buffered samples idx as
\* its centre, that peak reaches min_peak_magnitude, and 3 buffered samples or
\* more lie within half_window_s of it
PeakAmong(idx) ==
    \E r \in { Results[Len(Results)] } :
        /\ \E k \in idx :
              /\ buffer_[k].t = r.t_center
              /\ \A j \in idx : DynSq(k) >= DynSq(j)
              /\ DynSq(k) >= (cfg_.min_peak_magnitude * a0_world_.n)
                                 * (cfg_.min_peak_magnitude * a0_world_.n)
        /\ Cardinality({ j \in 1 .. Len(buffer_) :
                            /\ buffer_[j].t >= r.t_center - cfg_.half_window_s
                            /\ buffer_[j].t <= r.t_center + cfg_.half_window_s }) >= 3

\* the buffered samples that are not before the end of the baseline window
PastBaseline == { j \in 1 .. Len(buffer_) : buffer_[j].t >= t_baseline_end_ }

\* C32: a gesture is emitted only if the largest ||a_dyn|| over the buffered
\* samples is at least min_peak_magnitude and 3 buffered samples or more lie in
\* [t_peak - half_window_s, t_peak + half_window_s]; t_center is the time of
\* that peak sample.
C32_PeakOfBuffer == JustDetected => PeakAmong(1 .. Len(buffer_))

\* C32 as the code has it: the peak is the largest ||a_dyn|| over the buffered
\* samples that are not before the end of the baseline window.
C32_PeakPastBaseline == JustDetected => PeakAmong(PastBaseline)

\* a result was stored while a sample of the baseline window, still buffered,
\* lay further from the baseline than the peak
C32_Witness ==
    /\ JustDetected
    /\ \E i \in 1 .. Len(buffer_) :
          /\ buffer_[i].t < t_baseline_end_
          /\ \A j \in PastBaseline : DynSq(i) > DynSq(j)

\* the component of a result's delta_v along an axis
AxisComponent(r, axis) ==
    r.delta_v_world.num[IF axis = "X" THEN 1 ELSE IF axis = "Y" THEN 2 ELSE 3]

\* the axes that come before an axis when components are equal
AxesBefore(axis) ==
    IF axis = "X" THEN {} ELSE IF axis = "Y" THEN {"X"} ELSE {"X", "Y"}

\* C33: for every emitted gesture the chosen axis has the largest |delta_v|
\* component of the three, equal components resolved X before Y before Z,
\* that magnitude is at least 0.5 m/s, and sign is the sign of delta_v on
\* that axis
C33_AxisOfLargestDeltaV ==
    \A i \in 1 .. Len(Results) :
        \E r \in { Results[i] } :
            /\ r.axis \in {"X", "Y", "Z"}
            /\ \A b \in {"X", "Y", "Z"} :
                  Abs(AxisComponent(r, r.axis)) >= Abs(AxisComponent(r, b))
            /\ \A b \in AxesBefore(r.axis) :
                  Abs(AxisComponent(r, r.axis)) > Abs(AxisComponent(r, b))
            /\ Abs(AxisComponent(r, r.axis)) >= MinAxisDeltaV * r.delta_v_world.den
            /\ r.sign = (IF AxisComponent(r, r.axis) > 0 THEN "+" ELSE "-")
            /\ AxisComponent(r, r.axis) # 0

\* a gesture whose delta_v is as large along z as along y and smaller along
\* x, given to Y, with a negative sign
C33_Witness ==
    \E i \in 1 .. Len(Results) :
        /\ Results[i].axis = "Y"
        /\ Results[i].sign = "-"
        /\ Abs(AxisComponent(Results[i], "Z")) = Abs(AxisComponent(Results[i], "Y"))
        /\ Abs(AxisComponent(Results[i], "X")) < Abs(AxisComponent(Results[i], "Y"))

\* the last n samples of a buffer
LastSamples(buf, n) == SubSeq(buf, Len(buf) - n + 1, Len(buf))

\* the buffer after a call: the samples it held and the new one, less some
\* of the oldest, each of them older than 2.5 * half_window_s
RemovedForAge ==
    nsamples' = nsamples + 1 =>
        /\ buffer_' # << >>
        /\ \E new \in { buffer_'[Len(buffer_')] } :
           \E n \in 1 .. Len(buffer_) + 1 :
              /\ buffer_' = LastSamples(Append(buffer_, new), n)
              /\ \A k \in 1 .. Len(buffer_) + 1 - n :
                    2 * (new.t - buffer_[k].t) > 5 * cfg_.half_window_s

\* C34: after every add_sample call the sliding buffer is non-empty and its
\* oldest and newest sample are at most 2.5 * half_window_s apart; samples
\* leave it only from the old end and only because of their age
C34_BufferSpan ==
    /\ [](nsamples > 0 =>
            /\ buffer_ # << >>
            /\ 2 * (buffer_[Len(buffer_)].t - buffer_[1].t) <= 5 * cfg_.half_window_s)
    /\ [][RemovedForAge]_vars

\* samples have left the buffer, which holds two of one timestamp and spans
\* 0.7 s
C34_Witness ==
    /\ nsamples > Len(buffer_)
    /\ buffer_ # << >>
    /\ buffer_[Len(buffer_)].t - buffer_[1].t = 70
    /\ \E i \in 1 .. Len(buffer_) - 1 : buffer_[i].t = buffer_[i + 1].t

\* C35: for every sensor id and every interval in 1..65535 us, the 17 octets
\* sh2_set_feature sends are those build_enable_report_command produces, with
\* interval_us as a little-endian value at offsets 5..8
C35_EncodersAgree ==
    (call.fn = "sh2_set_feature" /\ wr.called) =>
        /\ Len(wr.payload) = CommandLen
        /\ wr.payload =
              SubSeq(build_enable_report_command(call.sensor, call.interval_us,
                                                 CommandLen).out_buf, 1, CommandLen)
        /\ SubSeq(wr.payload, 6, 9) =
              << call.interval_us % 256, (call.interval_us \div 256) % 256, 0, 0 >>

\* C36: write_frame hands the bus the whole frame [len_lo, len_hi with bit 7
\* clear, channel, sequence, payload...] in one write; when a write accepts
\* fewer octets than the frame has, write_frame fails and writes no more
C36_OneBusWrite ==
    (wr.called /\ wr.frame # << >>) =>
        /\ wr.frame = << (Len(wr.payload) + HeaderLen) % 256,
                         (Len(wr.payload) + HeaderLen) \div 256,
                         wr.channel, wr.frame[4] >> \o wr.payload
        /\ wr.frame[2] < 128
        /\ wr.short => (~wr.ret /\ wr.nwrites = 1)

\* a call made on a transport that is not open fails with NotOpen and issues
\* no ::read or ::write
RefusedNotOpen ==
    fd_ < 0 =>
        /\ (wr'.called /\ wr' # wr) =>
              /\ ~wr'.ret /\ wr'.errc = "NotOpen"
              /\ wr'.frame = << >> /\ wr'.nwrites = 0
        /\ (rd'.called /\ rd' # rd) =>
              /\ rd'.ret = "none" /\ rd'.errc = "NotOpen"
              /\ rd'.nreads = 0

\* C37: the transport holds at most one bus handle and leaks none: open()
\* releases the handle held, a failed open leaves the transport not open with
\* no descriptor, and on a transport that is not open every read_frame and
\* write_frame fails with NotOpen without touching the bus
C37_OneHandle ==
    /\ [](open_fds = (IF fd_ >= 0 THEN 1 ELSE 0))
    /\ [][RefusedNotOpen]_vars

\* what a write_frame call does to the sequence table: nothing when it is
\* refused, one step of the addressed channel's counter when the frame is
\* handed to the bus, whatever the bus then answers
SequenceConsumed ==
    (wr'.called /\ (wr' # wr \/ sent' # sent)) =>
        IF wr'.errc \in {"OversizeFrame", "NotOpen"}
        THEN /\ sequence_per_channel_' = sequence_per_channel_
             /\ wr'.frame = << >> /\ wr'.nwrites = 0
             /\ sent' = sent
        ELSE /\ wr'.nwrites >= 1
             /\ wr'.frame[4] = sequence_per_channel_[wr'.channel]
             /\ sequence_per_channel_' =
                   [c \in DOMAIN sequence_per_channel_ |->
                      IF c = wr'.channel
                      THEN (sequence_per_channel_[c] + 1) % 256
                      ELSE sequence_per_channel_[c]]

\* C38: write_frame advances the addressed channel's sequence counter only,
\* and only when it reaches the bus write: a call refused with OversizeFrame
\* or NotOpen leaves the table as it was and transmits nothing, and a call
\* whose bus write fails has consumed one sequence number of its channel
C38_SequenceOnBusWrite == [][SequenceConsumed]_vars

\* the bus has refused the second frame of a channel, whose counter is at 2
C38_Witness ==
    /\ wr.called /\ ~wr.ret /\ wr.errc = "IoError"
    /\ wr.frame # << >> /\ wr.frame[4] = 1
    /\ sequence_per_channel_[wr.channel] = 2
    /\ \A c \in DOMAIN sequence_per_channel_ \ {wr.channel} :
          sequence_per_channel_[c] = 0

\* an add_sample call that finds a result pending stores no other result
PendingKept ==
    (pending_result_ # << >> /\ nsamples' = nsamples + 1) =>
        /\ last_gesture_time_' = last_gesture_time_
        /\ pending_result_' = pending_result_

\* C39: no detected gesture is lost: however add_sample and poll_result calls
\* are interleaved, a pending result is not overwritten by a later detection
\* before a poll_result call has returned it
C39_NoGestureLost == [][PendingKept]_vars

\* a baseline that exists stays, and stays what it is
BaselineKept ==
    baseline_computed_ => (baseline_computed_' /\ a0_world_' = a0_world_)

\* C40: the baseline is latched: once has_baseline() is true it stays true,
\* and baseline_world(), like the baseline_world of every later result, does
\* not change under any add_sample or poll_result call
C40_BaselineLatched ==
    /\ [][BaselineKept]_vars
    /\ [](\A i \in 1 .. Len(Results) : Results[i].baseline_world = a0_world_)

\* two gestures measured from a baseline of 1.67 m/s^2 along z whose samples
\* have all left the buffer
C40_Witness ==
    /\ baseline_computed_
    /\ a0_world_ = [sum |-> << 0, 0, 500 >>, n |-> 3]
    /\ buffer_ # << >> /\ buffer_[1].t > t_baseline_end_
    /\ Len(Results) = 2
    /\ Results[1].t_center < Results[2].t_center

\* the first sample of every stream is taken at t = 0
FirstSampleTime == 0

\* C30: the baseline is the mean of a_world over all the samples whose time lies
\* within baseline_window_s of the first sample: its window starts at the first
\* sample, and as long as the samples of that window are in the buffer the
\* baseline is the mean of every one of them, not of some that came first.
C30_BaselineWholeWindow ==
    baseline_computed_ =>
        /\ t_baseline_end_ = FirstSampleTime + cfg_.baseline_window_s
        /\ (buffer_ # << >> /\ Head(buffer_).t = FirstSampleTime) =>
              a0_world_ = BaselineScan(buffer_, 1, FirstSampleTime,
                                       cfg_.baseline_window_s,
                                       [sum |-> ZeroVec, n |-> 0])

-----------------------------------------------------------------------------
(* Claims about the read loops *)

\* C10: an iteration of a read loop emits a sample (an add_sample call or a CSV
\* row) only if its read_frame returned a frame and every slot the sample carries
\* was refreshed by a decoded report since the emission before it.
C10_EmitOnlyWhenRefreshed ==
    (iter.ran /\ iter.emitted) =>
        /\ iter.got_frame
        /\ iter.fresh.accel
        /\ iter.fresh.quat

\* C13: every set-feature command frame a program transmits carries channel
\* octet 2 in its SHTP header.
C13_SetFeatureChannel ==
    (Len(wr.frame) > HeaderLen /\ wr.frame[HeaderLen + 1] = 253) => wr.frame[3] = 2

\* the set-feature payload the claims describe: 0xFD, the sensor, three zero
\* octets, the interval in 4 octets little-endian, eight zero octets
SetFeaturePayload(sensor, interval_us) ==
    << 253, sensor, 0, 0, 0 >> \o Le16(interval_us % 65536)
        \o Le16(interval_us \div 65536) \o << 0, 0, 0, 0, 0, 0, 0, 0 >>

\* C14: by the time the read loop starts, one set-feature command has been written
\* for each of LinearAcceleration, Accelerometer, GyroscopeCalibrated and
\* GameRotationVector, each with interval_us = 1000000 / hz.
C14_ReportsEnabled ==
    pc = "loop" =>
        /\ Len(commands) = 4
        /\ \A sensor \in {4, 1, 2, 8} :
              \E k \in 1 .. Len(commands) :
                  commands[k] = SetFeaturePayload(sensor, 1000000 \div hz)

BusFaults == {"IoError", "OversizeFrame", "InvalidHeader", "NotOpen"}

\* C23: once read_frame has reported a bus or protocol fault, the program does not
\* read again from that handle: it closes the bus (and re-initialises with delays
\* of 100 ms, 200 ms, 400 ms, ... up to 2 s) before any further iteration.
C23_FaultReinitialises ==
    [][ (iter.ran /\ iter.errc \in BusFaults /\ fd_ = FdOpen) => niter' = niter ]_vars

\* C24: in every program SIGINT sets a flag that the read loop observes: the
\* program is not cut off where it stands, no iteration starts once the flag is
\* set, and when main returns the bus handle is closed.
C24_CooperativeShutdown ==
    /\ [][pc = "loop" => pc' # "killed"]_vars
    /\ [](pc = "done" => (fd_ = -1 /\ open_fds = 0))
    /\ [][g_stop => niter' = niter]_vars

\* C25: every sample a read loop emits, a CSV row or a sample handed to the
\* detector, carries a timestamp greater than that of the sample emitted before.
C25_TimestampsIncrease ==
    (iter.ran /\ iter.emitted /\ iter.t_prev >= 0) => iter.t > iter.t_prev

\* C27: handle_reset called twice in succession leaves the session (slots,
\* freshness markers, sequence table, enabled reports, pending-reset flag) as one
\* call does, apart from the timestamps: the state after the second call is the
\* state one call, with the device answering as in the second, makes of the
\* session as it was before the first.
C27_ResetIdempotent ==
    (call.fn = "session" /\ call.resets >= 2) =>
        \E last \in { call.answers[Len(call.answers)] } :
            ModuloTimestamps(call.session)
                = ModuloTimestamps(handle_reset(call.before, last, 0))

C27_Witness ==
    /\ call.fn = "session"
    /\ call.resets = 2
    /\ call.answers = << TRUE, TRUE >>
    /\ call.before.pending_reset
    /\ call.before.slots["quat"].value = 1
    /\ call.before.seq["HubControl"] = 9
    /\ call.before.enabled # call.session.enabled
    /\ call.session.seq["HubControl"] = 5
    /\ ~call.session.pending_reset
    /\ call.session.epoch > call.before.epoch + 1

\* a read under way or over, with a positive timeout_ms
TimedRead == call.fn \in {"read_exact", "read_frame"} /\ call.timeout_ms > 0

\* C28: with a positive timeout_ms a bus read returns, and when the device has
\* supplied none of the octets (every ::read or ::poll, if any, having said try
\* again) it returns the outcome of a timeout: Timeout from read_exact, no frame
\* and no error from read_frame.
C28_ReadTerminates ==
    /\ [](TimedRead => <>(TimedRead /\ call.pc = "returned"))
    /\ []((TimedRead /\ call.pc = "returned" /\ fd_ >= 0 /\ ~call.other)
            => (~call.ok /\ call.errc = (IF call.fn = "read_exact"
                                         THEN "Timeout" ELSE "None")))

\* the rate the claim describes: the requested one brought into 1..400
ClampedHz(requested) ==
    IF requested < 1 THEN 1 ELSE IF requested > 400 THEN 400 ELSE requested

\* C26: whatever --hz asks for, the program is not refused and runs with the rate
\* clamped into 1..400, and wherever it divides by hz, hz is at least 1.
C26_HzClamped ==
    call.fn = "main_args" =>
        /\ call.ok
        /\ call.hz = ClampedHz(call.requested)
        /\ call.divides => call.hz >= 1
        /\ ~call.undefined

\* the reports of a payload, in its order: each as long as its ID implies, up to
\* the first that is cut short
RECURSIVE ReportsOf(_)
ReportsOf(data) ==
    IF Len(data) = 0 \/ Len(data) < ReportLen(data[1]) THEN << >>
    ELSE << SubSeq(data, 1, ReportLen(data[1])) >>
             \o ReportsOf(SubSeq(data, ReportLen(data[1]) + 1, Len(data)))

\* the slots after every report of the sequence has been applied, in order
RECURSIVE ApplyReports(_, _)
ApplyReports(st, reports) ==
    IF reports = << >> THEN st
    ELSE ApplyReports(UpdateState(st, parse_sh2_sensor_event(Head(reports))),
                      Tail(reports))

\* C29: when the payload of a sensor-channel frame holds several reports back to
\* back, each of them is decoded and applied to its slot, in the order of the
\* payload, before the next frame is read: after the iteration the slots hold
\* what the last report of each kind in the payload says.
C29_EveryReportApplied ==
    (prog \in {"imu_dir", "imu_dir_read"} /\ iter.ran /\ iter.got_frame
       /\ rd.frame.channel \in 2 .. 5)
    => \E applied \in { ApplyReports(NoState,
                                     ReportsOf(SkipTimestamp(rd.frame.payload))) } :
          /\ applied.have_accel => (state.have_accel
                                    /\ state.last_accel = applied.last_accel)
          /\ applied.have_quat => (state.have_quat
                                   /\ state.last_quat = applied.last_quat)

-----------------------------------------------------------------------------
(* Claims about the SH-2 codec *)

\* C12: given a buffer of at least 17 octets, build_enable_report_command returns
\* true and produces exactly 17 octets: 0xFD, the sensor id, three zero octets,
\* interval_us as 4 octets little-endian, eight zero octets; given a shorter
\* buffer it returns false.
C12_EnableCommand ==
    call.fn = "build_enable_report_command" =>
        IF call.max_len >= 17
        THEN /\ call.out.ret
             /\ call.out.out_len = 17
             /\ Len(call.out.out_buf) >= 17
             /\ call.out.out_buf[1] = 253
             /\ call.out.out_buf[2] = call.sensor
             /\ \A k \in {3, 4, 5} \cup (10 .. 17) : call.out.out_buf[k] = 0
             /\ call.out.out_buf[6] + 256 * call.out.out_buf[7]
                   = call.interval_us % 65536
             /\ call.out.out_buf[8] + 256 * call.out.out_buf[9]
                   = call.interval_us \div 65536
        ELSE ~call.out.ret

C12_Witness ==
    /\ call.fn = "build_enable_report_command"
    /\ call.sensor = 4
    /\ call.interval_us = 305419896
    /\ call.max_len = 17
    /\ call.out.ret
    /\ SubSeq(call.out.out_buf, 6, 9) = << 120, 86, 52, 18 >>

\* the octets of s from offset k (0-based) on
From(s, k) == SubSeq(s, k + 1, Len(s))

\* the event decoded from a record, none from an empty one
DecodeRecord(r) == IF r = << >> THEN NoEvent ELSE parse_sh2_sensor_event(r)

\* C15: of a sensor-channel payload whose first octet is 0xFB exactly the first
\* 5 octets are skipped and decoding starts at octet 5; a payload that does not
\* start with 0xFB is decoded from octet 0.
C15_TimestampSkipped ==
    call.fn = "decode_payload" =>
        call.out = IF call.data # << >> /\ call.data[1] = 251
                   THEN DecodeRecord(From(call.data, 5))
                   ELSE DecodeRecord(call.data)

C15_Witness ==
    /\ call.fn = "decode_payload"
    /\ Len(call.data) >= 15
    /\ SubSeq(call.data, 1, 6) = << 251, 16, 0, 0, 0, 1 >>
    /\ call.out.some
    /\ call.out.sensor_id = 1

\* the signed 16-bit integer stored low octet first at offsets off, off + 1
Int16At(data, off) ==
    ((data[off + 1] + 256 * data[off + 2] + 32768) % 65536) - 32768

\* C16: of an accelerometer (0x01) or linear-acceleration (0x04) record of at
\* least 10 octets each axis decodes to the signed little-endian 16-bit integer
\* at offsets 4, 6, 8 divided by 256; a gyroscope (0x02) record uses the same
\* offsets divided by 512.
C16_AxisScale ==
    ( /\ call.fn = "parse_sh2_sensor_event"
      /\ Len(call.data) >= 10
      /\ call.data[1] \in {1, 2, 4} )
    => /\ call.out.some
       /\ IF call.data[1] = 2
          THEN call.out.gyro = << [ num |-> << Int16At(call.data, 4),
                                              Int16At(call.data, 6),
                                              Int16At(call.data, 8) >>,
                                    den |-> 512 ] >>
          ELSE call.out.accel = << [ num |-> << Int16At(call.data, 4),
                                               Int16At(call.data, 6),
                                               Int16At(call.data, 8) >>,
                                     den |-> 256 ] >>

C16_Witness ==
    /\ call.fn = "parse_sh2_sensor_event"
    /\ Len(call.data) = 10
    /\ call.data[1] = 4
    /\ SubSeq(call.data, 9, 10) = << 0, 255 >>
    /\ call.out.some
    /\ call.out.accel[1].num[3] = -256
    /\ call.out.accel[1].den = 256

\* the record of the example
ExampleRecord == << 1, 0, 3, 0, 0, 1, 0, 2, 0, 255 >>

\* C17 as stated: decoding [0x01, 0x00, 0x03, 0x00, 0x00, 0x01, 0x00, 0x02, 0x00,
\* 0xFF] yields a linear-acceleration report with accuracy High and x = 1.0,
\* y = 2.0, z = -1.0.
C17_ExampleLinear ==
    (call.fn = "parse_sh2_sensor_event" /\ call.data = ExampleRecord) =>
        /\ call.out.some
        /\ call.out.sensor_id = 4
        /\ call.out.accuracy = "High"
        /\ call.out.accel = << [num |-> << 256, 512, -256 >>, den |-> 256] >>

\* C17 amended: decoding that record yields an accelerometer report (sensor_id
\* 0x01) with accuracy High and accel x = 1.0, y = 2.0, z = -1.0.
C17_ExampleAccelerometer ==
    (call.fn = "parse_sh2_sensor_event" /\ call.data = ExampleRecord) =>
        /\ call.out.some
        /\ call.out.sensor_id = 1
        /\ call.out.accuracy = "High"
        /\ call.out.accel = << [num |-> << 256, 512, -256 >>, den |-> 256] >>
        /\ call.out.gyro = << >>
        /\ call.out.game_quat = << >>

C17_Witness ==
    /\ call.fn = "parse_sh2_sensor_event"
    /\ call.data = ExampleRecord
    /\ call.out.some

\* C19: parse_sh2_sensor_event returns none exactly when the report ID is not one
\* of 0x01, 0x02, 0x04, 0x08 or the record is shorter than 10, 10, 10, 12 octets;
\* otherwise the event has exactly one of accel, gyro, game_quat populated and
\* its sensor_id is the report ID.
C19_NoneExactly ==
    call.fn = "parse_sh2_sensor_event" =>
        IF /\ call.data # << >>
           /\ call.data[1] \in {1, 2, 4, 8}
           /\ Len(call.data) >= (IF call.data[1] = 8 THEN 12 ELSE 10)
        THEN /\ call.out.some
             /\ call.out.sensor_id = call.data[1]
             /\ Cardinality({ slot \in {"accel", "gyro", "game_quat"} :
                                 call.out[slot] # << >> }) = 1
        ELSE ~call.out.some

C19_Witness ==
    /\ call.fn = "parse_sh2_sensor_event"
    /\ Len(call.data) = 12
    /\ call.data[1] = 2
    /\ call.out.some
    /\ call.out.gyro # << >>
    /\ call.out.accel = << >>

-----------------------------------------------------------------------------
(* Claims about the codec inside the read loops *)

\* the report in the payload of the frame the last iteration read
ReportRead == SkipTimestamp(rd.frame.payload)

\* C18: of a game-rotation-vector (0x08) record of at least 12 octets the decoded
\* quaternion is (w, x, y, z) = (raw@10, raw@4, raw@6, raw@8) / 16384, the octets
\* being in the order i, j, k, real, and the sample the read loop hands to the
\* detector carries it in that order; (0, 0, 0, 16384) gives exactly (1, 0, 0, 0).
C18_QuaternionOrder ==
    ( /\ prog \in {"imu_dir", "imu_dir_read"}
      /\ iter.ran /\ iter.got_frame
      /\ rd.frame.channel \in 2 .. 5
      /\ Len(ReportRead) >= 12
      /\ ReportRead[1] = 8 )
    => /\ state.last_quat =
             [ num |-> << Int16At(ReportRead, 10), Int16At(ReportRead, 4),
                          Int16At(ReportRead, 6), Int16At(ReportRead, 8) >>,
               den |-> 16384 ]
       /\ iter.emitted =>
             /\ buffer_ # << >>
             /\ \A k \in 1 .. 4 :
                   buffer_[Len(buffer_)].quat[k] * 16384 = state.last_quat.num[k]
       /\ (iter.emitted /\ SubSeq(ReportRead, 5, 12) = << 0, 0, 0, 0, 0, 0, 0, 64 >>)
             => buffer_[Len(buffer_)].quat = << 1, 0, 0, 0 >>

C18_Witness ==
    /\ prog = "imu_dir"
    /\ iter.ran /\ iter.got_frame /\ iter.emitted
    /\ Len(ReportRead) >= 12
    /\ ReportRead[1] = 8
    /\ SubSeq(ReportRead, 5, 12) = << 0, 64, 0, 0, 0, 0, 0, 0 >>
    /\ buffer_[Len(buffer_)].quat = << 0, 1, 0, 0 >>

====
